---- MODULE Spec2Model ----
(***************************************************************************)
(* chord-sheet-maker: the chord transposer, the chart serializer, the      *)
(* chord-chart dialect parsers, the format classifier and the MusicXML ->  *)
(* ChordPro converter, as state machines over bounded inputs.              *)
(*                                                                         *)
(* Text is modelled as TLA+ strings, read character by character with      *)
(* SubSeq, so that parsing and formatting are computed as the code does.   *)
(***************************************************************************)
EXTENDS Integers, Sequences, FiniteSets, TLC

VARIABLES
    \* --- transposer / serializer harness ---
    tpc,            \* "start" | "once" | "twice" | "serialized"
    chord,          \* the chord string given to transposeChord
    stepsA,         \* steps of the first transposeChord call
    stepsB,         \* steps of the second transposeChord call
    once,           \* transposeChord(chord, stepsA)
    twice,          \* transposeChord(once, stepsB)
    tdoc,           \* the ChordChartDocument given to the serializer
    tsteps,         \* transposeSteps given to the serializer
    chartProText,   \* serializeChordProFromDocument(tdoc, tsteps)
    \* --- convertMusicXmlToChordPro ---
    xpc,            \* "idle" | "start" | "metadata" | "measures" | "render" | "done"
    xmlDoc,         \* the parsed score (input.xmlText after DOMParser)
    options,        \* mergedOptions
    warnings,       \* the warnings array
    diagnostics,    \* ConverterDiagnostics
    metadata,       \* ParsedMetadata
    curDivisions,      \* "let divisions" of buildMeasureData
    measureList,       \* "result" of buildMeasureData: MeasureData[]
    measureOrder,   \* resolveMeasureOrder's result
    chordPro,       \* ConvertOutput.chordPro
    error,          \* ConvertOutput.error ("" when undefined)
    \* --- parseChordChart ---
    cpc,            \* "idle" | "start" | "lines" | "done"
    chartText,      \* the text given to the parser
    chartFormat,    \* the sourceFormat given to parseChordChart
    rawLines,       \* normalizeLineEndings(text).split("\n")
    lineIndex,      \* the index of the next raw line (0-based)
    chartDoc,       \* doc: the ChordChartDocument being built
    currentSection,        \* the section being filled
    \* --- sniffFormatFromBytes ---
    spc,            \* "idle" | "start" | "decoded" | "done"
    sniffBytes,     \* bytes
    sniffFilename,  \* filename
    sniffText,      \* the decoded text of the leading bytes
    sniffed,        \* the tag returned
    \* --- isChordLine of the parser and of the classifier ---
    ipc,            \* "idle" | "start" | "parser" | "done"
    chordLine,      \* the line asked about
    parserAnswer,   \* isChordLine(line) of chordProParser.ts
    snifferAnswer,  \* isChordLine(line) of sniffFormat.ts
    \* --- the callers ---
    calls,          \* the calls that have returned: how many, and what each
                    \* input gave
    \* --- the chord-chart view of the App component ---
    apc,            \* "idle" | "chart" (a chart is loaded and shown)
    chartDocument,  \* the chartDocument state
    appTransposeSteps, \* the transposeSteps state
    pressed,        \* the presses of + and - so far, oldest first
    shownAtLoad,    \* chartProText as it was before any press
    \* --- the notation view of the App component: PDF export and print ---
    zpc,            \* "idle" | "score" (a score is rendered)
    pdfPageSize,    \* "letter" | "a4"
    EngravingRules, \* osmd.EngravingRules: the page rules and the page format
    Zoom,           \* osmd.Zoom, in tenths
    ops,            \* the exportPdf / printScore calls: where each one is,
                    \* and the snapshots it holds
    rulesAtStart,   \* EngravingRules before the first call
    zoomAtStart     \* Zoom before the first call

tvars == <<tpc, chord, stepsA, stepsB, once, twice, tdoc, tsteps, chartProText>>

xvars == <<xpc, xmlDoc, options, warnings, diagnostics, metadata, curDivisions, measureList,
           measureOrder, chordPro, error>>

cvars == <<cpc, chartText, chartFormat, rawLines, lineIndex, chartDoc, currentSection>>

svars == <<spc, sniffBytes, sniffFilename, sniffText, sniffed>>

ivars == <<ipc, chordLine, parserAnswer, snifferAnswer>>

hvars == <<calls>>

avars == <<apc, chartDocument, appTransposeSteps, pressed, shownAtLoad>>

zvars == <<zpc, pdfPageSize, EngravingRules, Zoom, ops, rulesAtStart, zoomAtStart>>

vars == <<tvars, xvars, cvars, svars, ivars, hvars, avars, zvars>>

\* What each component leaves alone.
notT == <<xvars, cvars, svars, ivars, hvars, avars, zvars>>

notX == <<tvars, cvars, svars, ivars, hvars, avars, zvars>>

notC == <<tvars, xvars, svars, ivars, hvars, avars, zvars>>

notS == <<tvars, xvars, cvars, ivars, hvars, avars, zvars>>

notA == <<tvars, xvars, cvars, svars, ivars, hvars, zvars>>

notZ == <<tvars, xvars, cvars, svars, ivars, hvars, avars>>

-----------------------------------------------------------------------------
(* Bounds *)

MaxSteps == 12

-----------------------------------------------------------------------------
(* String helpers (JavaScript semantics, 0-based indices as in the source) *)

CharAt(s, i) == SubSeq(s, i + 1, i + 1)

Slice(s, from, to) == SubSeq(s, from + 1, to)

SliceFrom(s, from) == SubSeq(s, from + 1, Len(s))

RECURSIVE LastIndexFrom(_, _, _)
LastIndexFrom(s, ch, i) ==
    IF i < 0 THEN -1
    ELSE IF CharAt(s, i) = ch THEN i
    ELSE LastIndexFrom(s, ch, i - 1)

lastIndexOf(s, ch) == LastIndexFrom(s, ch, Len(s) - 1)

RECURSIVE IndexFrom(_, _, _)
IndexFrom(s, ch, i) ==
    IF i >= Len(s) THEN -1
    ELSE IF CharAt(s, i) = ch THEN i
    ELSE IndexFrom(s, ch, i + 1)

indexOf(s, ch) == IndexFrom(s, ch, 0)

includesChar(s, ch) == indexOf(s, ch) >= 0

\* JavaScript's % : the remainder takes the sign of the dividend.
JsRem(x, n) == IF x >= 0 THEN x % n ELSE -((-x) % n)

RECURSIVE JoinWith(_, _)
JoinWith(parts, sep) ==
    IF Len(parts) = 0 THEN ""
    ELSE IF Len(parts) = 1 THEN parts[1]
    ELSE parts[1] \o sep \o JoinWith(Tail(parts), sep)

-----------------------------------------------------------------------------
(* Transposer: src/src/renderers/ChordChart.tsx *)

CHROMATIC == <<"C", "C#", "D", "D#", "E", "F", "F#", "G", "G#", "A", "A#", "B">>

ENHARMONIC ==
    [Db |-> "C#", Eb |-> "D#", Fb |-> "E", Gb |-> "F#", Ab |-> "G#",
     Bb |-> "A#", Cb |-> "B"]

\* CHROMATIC.indexOf(note): 0-based, -1 when absent.
ChromaticIndex(note) ==
    IF \E i \in 1..Len(CHROMATIC) : CHROMATIC[i] = note
    THEN (CHOOSE i \in 1..Len(CHROMATIC) : CHROMATIC[i] = note) - 1
    ELSE -1

\* A plausible slip: the negative remainder folded by its absolute value
\* instead of the "+ 12) % 12" normalisation.
transposeRootAbs(root, steps) ==
    IF steps = 0 THEN root
    ELSE LET normalized == IF root \in DOMAIN ENHARMONIC THEN ENHARMONIC[root] ELSE root
             idx == ChromaticIndex(normalized)
             r == JsRem(idx + steps, 12)
         IN  IF idx = -1 THEN root
             ELSE CHROMATIC[(IF r < 0 THEN -r ELSE r) + 1]

\* A plausible slip: the "steps === 0" early return left out, so that a flat
\* root is respelled even when nothing is transposed.
transposeRootNoZeroGuard(root, steps) ==
    LET normalized == IF root \in DOMAIN ENHARMONIC THEN ENHARMONIC[root] ELSE root
        idx == ChromaticIndex(normalized)
    IN  IF idx = -1 THEN root
        ELSE CHROMATIC[((JsRem(idx + steps, 12) + 12) % 12) + 1]

transposeRoot(root, steps) ==
    IF steps = 0 THEN root
    ELSE LET normalized == IF root \in DOMAIN ENHARMONIC THEN ENHARMONIC[root] ELSE root
             idx == ChromaticIndex(normalized)
         IN  IF idx = -1 THEN root
             ELSE CHROMATIC[((JsRem(idx + steps, 12) + 12) % 12) + 1]

\* chord.match(/^([A-G][#b]?)(.*)$/): the number of characters of group 1,
\* 0 when the regular expression does not match ("." matches no line break).
RootLetters == {"A", "B", "C", "D", "E", "F", "G"}

RootLen(s) ==
    IF Len(s) = 0 \/ CharAt(s, 0) \notin RootLetters \/ includesChar(s, "\n") THEN 0
    ELSE IF Len(s) >= 2 /\ CharAt(s, 1) \in {"#", "b"} THEN 2
    ELSE 1

\* A plausible slip: neither "steps === 0" early return is there, so a call
\* with 0 steps runs the flat-to-sharp lookup.
RECURSIVE transposeChordNoZeroGuard(_, _)
transposeChordNoZeroGuard(c, steps) ==
    LET slashIdx == lastIndexOf(c, "/") IN
    IF slashIdx > 0
    THEN transposeChordNoZeroGuard(Slice(c, 0, slashIdx), steps) \o "/"
           \o transposeChordNoZeroGuard(SliceFrom(c, slashIdx + 1), steps)
    ELSE LET n == RootLen(c) IN
         IF n = 0 THEN c
         ELSE transposeRootNoZeroGuard(Slice(c, 0, n), steps) \o SliceFrom(c, n)

RECURSIVE transposeChord(_, _)
transposeChord(c, steps) ==
    IF steps = 0 THEN c
    ELSE LET slashIdx == lastIndexOf(c, "/") IN
         IF slashIdx > 0
         THEN transposeChord(Slice(c, 0, slashIdx), steps) \o "/"
                \o transposeChord(SliceFrom(c, slashIdx + 1), steps)
         ELSE LET n == RootLen(c) IN
              IF n = 0 THEN c
              ELSE transposeRoot(Slice(c, 0, n), steps) \o SliceFrom(c, n)

-----------------------------------------------------------------------------
(* Chart serializer: src/unnamed/part_003 (App.tsx), lines 1594-1650 *)

Whitespace == {" ", "\n", "\t", "\r"}

RECURSIVE trimStart(_)
trimStart(s) ==
    IF Len(s) > 0 /\ CharAt(s, 0) \in Whitespace THEN trimStart(Tail(s)) ELSE s

RECURSIVE trimEnd(_)
trimEnd(s) ==
    IF Len(s) > 0 /\ CharAt(s, Len(s) - 1) \in Whitespace
    THEN trimEnd(Slice(s, 0, Len(s) - 1))
    ELSE s

trim(s) == trimEnd(trimStart(s))

\* One token of a line as the serializer writes it.
SerializeToken(token, transposeSteps) ==
    IF token.kind = "chord"
    THEN "[" \o (IF transposeSteps # 0 THEN transposeChord(token.text, transposeSteps)
                 ELSE token.text) \o "]"
    ELSE IF token.kind = "lyric" THEN token.text
    ELSE IF token.kind = "comment" THEN "{comment: " \o token.text \o "}"
    ELSE ""

SerializeLine(line, transposeSteps) ==
    JoinWith([i \in 1..Len(line.tokens) |-> SerializeToken(line.tokens[i], transposeSteps)], "")

\* The lines pushed for one section: the blank separator, the start
\* directive, the content lines and the end directive.
SerializeSection(section, transposeSteps) ==
    <<"">>
    \o (IF section.type # "unknown"
        THEN IF section.label # ""
             THEN <<"{start_of_" \o section.type \o ": " \o section.label \o "}">>
             ELSE <<"{start_of_" \o section.type \o "}">>
        ELSE <<>>)
    \o [i \in 1..Len(section.lines) |-> SerializeLine(section.lines[i], transposeSteps)]
    \o (IF section.type # "unknown" THEN <<"{end_of_" \o section.type \o "}">> ELSE <<>>)

RECURSIVE SerializeSections(_, _)
SerializeSections(sections, transposeSteps) ==
    IF Len(sections) = 0 THEN <<>>
    ELSE SerializeSection(Head(sections), transposeSteps)
           \o SerializeSections(Tail(sections), transposeSteps)

MetaLine(name, value) == IF value # "" THEN <<"{" \o name \o ": " \o value \o "}">> ELSE <<>>

serializeChordProFromDocument(doc, transposeSteps) ==
    LET displayKey == IF transposeSteps # 0 THEN transposeChord(doc.key, transposeSteps)
                      ELSE doc.key
        lines == MetaLine("title", doc.title)
                   \o MetaLine("artist", doc.artist)
                   \o MetaLine("subtitle", doc.subtitle)
                   \o (IF doc.key # "" THEN <<"{key: " \o displayKey \o "}">> ELSE <<>>)
                   \o MetaLine("capo", doc.capo)
                   \o MetaLine("tempo", doc.tempo)
                   \o MetaLine("time", doc.time)
                   \o SerializeSections(doc.sections, transposeSteps)
    IN  trimStart(JoinWith(lines, "\n"))

\* No line has been asked about.
IIdle == ipc = "idle" /\ chordLine = "" /\ parserAnswer = FALSE /\ snifferAnswer = FALSE

\* No call has returned yet.
HIdle == calls = [count |-> 0, converted |-> {}, parsed |-> {}]

-----------------------------------------------------------------------------
(* Inputs of the transposer / serializer harness *)

Accidentals == {"", "#", "b"}

QualitySuffixes == {"", "m7", "b5", "#"}

BassParts == {"", "/E", "/Bb", "/C#"}

\* Root letter, optional accidental, quality suffix, optional /bass.
ChordShaped ==
    {r \o a \o q \o b : r \in RootLetters, a \in Accidentals,
                        q \in QualitySuffixes, b \in BassParts}

\* Text that is no chord: no leading root letter, a leading slash, empty.
NonChordText == {"", "N.C.", "/G", "x/Bb", "hello", "H", "%"}

ChordInputs == ChordShaped \cup NonChordText

Steps == (0 - MaxSteps)..MaxSteps

EmptyDoc ==
    [title |-> "", artist |-> "", subtitle |-> "", key |-> "", capo |-> "",
     tempo |-> "", time |-> "", sections |-> <<>>, sourceFormat |-> "chordpro"]

ChordToken(t) == [kind |-> "chord", text |-> t]
LyricToken(t) == [kind |-> "lyric", text |-> t]
CommentToken(t) == [kind |-> "comment", text |-> t]

\* Documents around one chord: with and without the key, in a labelled
\* typed section or in an untyped one.
DocsAround(c) ==
    {[EmptyDoc EXCEPT !.title = ti, !.key = k,
        !.sections = <<[type |-> ty, label |-> lb,
                        lines |-> <<[tokens |-> <<ChordToken(c), LyricToken("la ")>>],
                                    [tokens |-> <<CommentToken("x")>>]>>]>>] :
        ti \in {"", "T"}, k \in {"", c},
        ty \in {"unknown", "verse"}, lb \in {"", "1"}}

-----------------------------------------------------------------------------
(* The transposer / serializer harness *)

TInit ==
    /\ tpc = "start"
    /\ chord \in ChordInputs
    /\ stepsA = 0
    /\ stepsB = 0
    /\ once = ""
    /\ twice = ""
    /\ tdoc = EmptyDoc
    /\ tsteps = 0
    /\ chartProText = ""

\* transposeChord(chord, a)
TransposeOnce(a) ==
    /\ tpc = "start"
    /\ tpc' = "once"
    /\ stepsA' = a
    /\ once' = transposeChord(chord, a)
    /\ UNCHANGED <<chord, stepsB, twice, tdoc, tsteps, chartProText, notT>>

\* transposeChord(transposeChord(chord, a), b)
TransposeTwice(b) ==
    /\ tpc = "once"
    /\ tpc' = "twice"
    /\ stepsB' = b
    /\ twice' = transposeChord(once, b)
    /\ UNCHANGED <<chord, stepsA, once, tdoc, tsteps, chartProText, notT>>

\* serializeChordProFromDocument(doc, transposeSteps) with the steps of the
\* chart view.
Serialize(d) ==
    /\ tpc = "once"
    /\ tpc' = "serialized"
    /\ tdoc' = d
    /\ tsteps' = stepsA
    /\ chartProText' = serializeChordProFromDocument(d, stepsA)
    /\ UNCHANGED <<chord, stepsA, stepsB, once, twice, notT>>

TNext ==
    \/ \E a \in Steps : TransposeOnce(a)
    \/ \E b \in Steps : TransposeTwice(b)
    \/ \E d \in DocsAround(chord) : Serialize(d)

\* No transposer call is in progress.
TIdle ==
    /\ tpc = "idle"
    /\ chord = ""
    /\ stepsA = 0
    /\ stepsB = 0
    /\ once = ""
    /\ twice = ""
    /\ tdoc = EmptyDoc
    /\ tsteps = 0
    /\ chartProText = ""

-----------------------------------------------------------------------------
(* Claims about the transposer and the serializer *)

Contains(s, sub) ==
    \E i \in 0..(Len(s) - Len(sub)) : Slice(s, i, i + Len(sub)) = sub

\* Some part of the chord (split at "/" as transposeChord splits it) has a
\* flat root.
RECURSIVE HasFlatRoot(_)
HasFlatRoot(c) ==
    LET slashIdx == lastIndexOf(c, "/") IN
    IF slashIdx > 0
    THEN HasFlatRoot(Slice(c, 0, slashIdx)) \/ HasFlatRoot(SliceFrom(c, slashIdx + 1))
    ELSE RootLen(c) = 2 /\ CharAt(c, 1) = "b"

\* In no part of the chord does the text after the root begin with # or b.
RECURSIVE CleanSuffixes(_)
CleanSuffixes(c) ==
    LET slashIdx == lastIndexOf(c, "/") IN
    IF slashIdx > 0
    THEN CleanSuffixes(Slice(c, 0, slashIdx)) /\ CleanSuffixes(SliceFrom(c, slashIdx + 1))
    ELSE LET n == RootLen(c) IN
         n = 0 \/ Len(c) = n \/ CharAt(c, n) \notin {"#", "b"}

\* C1 as stated: for every chord with a root letter and all a, b,
\* transposeChord(transposeChord(chord, a), b) = transposeChord(chord, a + b),
\* the case a + b = 0 included.
C1_GroupProperty ==
    (tpc = "twice" /\ RootLen(chord) > 0)
        => twice = transposeChord(chord, stepsA + stepsB)

\* C1 amended: for a chord with a root letter in which no root is followed
\* by a further # or b, transposing by a and then by b equals transposing by
\* a + b, except when a # 0, a + b = 0 and some root is flat: then the result
\* is the chord respelled with sharps (what transposing by 12 gives), not the
\* original string.
C1_GroupPropertyUpToSpelling ==
    (tpc = "twice" /\ RootLen(chord) > 0 /\ CleanSuffixes(chord))
        => IF stepsA # 0 /\ stepsA + stepsB = 0 /\ HasFlatRoot(chord)
           THEN twice = transposeChord(chord, 12) /\ twice # chord
           ELSE twice = transposeChord(chord, stepsA + stepsB)

C1_Witness ==
    /\ tpc = "twice"
    /\ chord = "Ebm7/Bb"
    /\ stepsA = 5
    /\ stepsB = -5
    /\ once = "G#m7/D#"
    /\ twice = "D#m7/A#"

ChordTokenTexts(doc) ==
    {doc.sections[i].lines[j].tokens[k].text :
        <<i, j, k>> \in {t \in (1..Len(doc.sections)) \X (1..4) \X (1..4) :
            /\ t[2] <= Len(doc.sections[t[1]].lines)
            /\ t[3] <= Len(doc.sections[t[1]].lines[t[2]].tokens)
            /\ doc.sections[t[1]].lines[t[2]].tokens[t[3]].kind = "chord"}}

\* C2: transposeChord(chord, 0) is the input string itself, for chords with
\* sharp or flat roots, slash chords and text that is no chord; and the
\* serializer called with 0 steps writes every chord token and the key as
\* they are in the document.
C2_ZeroStepsVerbatim ==
    /\ (tpc \in {"once", "twice", "serialized"} /\ stepsA = 0) => once = chord
    /\ (tpc = "twice" /\ stepsB = 0) => twice = once
    /\ (tpc = "serialized" /\ tsteps = 0) =>
          /\ \A t \in ChordTokenTexts(tdoc) : Contains(chartProText, "[" \o t \o "]")
          /\ tdoc.key # "" => Contains(chartProText, "{key: " \o tdoc.key \o "}")

C2_Witness ==
    /\ tpc = "serialized"
    /\ tsteps = 0
    /\ chord = "Bbm7/Bb"
    /\ once = "Bbm7/Bb"
    /\ tdoc.key = "Bbm7/Bb"
    /\ ChordTokenTexts(tdoc) = {"Bbm7/Bb"}
    /\ Contains(chartProText, "{key: Bbm7/Bb}")
    /\ Contains(chartProText, "[Bbm7/Bb]la ")

-----------------------------------------------------------------------------
(* MusicXML -> ChordPro converter: src/unnamed/part_003, lines 3359-4225   *)
(* (musicXMLtochordpro.ts).  Rendering.                                    *)

Max(a, b) == IF a >= b THEN a ELSE b

Min(a, b) == IF a <= b THEN a ELSE b

\* The not-a-number value of an offset (parseFloat of a text that is no
\* number, carried through Math.round and Math.max): it stands as a number
\* that no cursor and no offset of the model reaches, and every operator
\* that reads an offset asks IsNaN first.
NaN == -1000000

IsNaN(x) == x = NaN

\* (a, b) => a.offsetDivisions - b.offsetDivisions as Array.prototype.sort
\* reads it: a result that is NaN counts as 0.
CompareOffsets(a, b) ==
    IF IsNaN(a.offsetDivisions) \/ IsNaN(b.offsetDivisions) THEN 0
    ELSE a.offsetDivisions - b.offsetDivisions

\* The comparison is consistent over the events: an event whose offset is
\* NaN compares equal to every event, so all the others must compare equal.
ConsistentOffsets(events) ==
    (\E i \in 1..Len(events) : IsNaN(events[i].offsetDivisions))
        => \A i, j \in 1..Len(events) : CompareOffsets(events[i], events[j]) = 0

\* Insert e into a sequence sorted by offsetDivisions, after every element
\* that does not come after it: Array.prototype.sort is stable.
RECURSIVE InsertByOffset(_, _)
InsertByOffset(sorted, e) ==
    IF Len(sorted) = 0 THEN <<e>>
    ELSE IF CompareOffsets(Head(sorted), e) <= 0
         THEN <<Head(sorted)>> \o InsertByOffset(Tail(sorted), e)
         ELSE <<e>> \o sorted

RECURSIVE StableSortByOffset(_)
StableSortByOffset(events) ==
    IF Len(events) = 0 THEN <<>>
    ELSE InsertByOffset(StableSortByOffset(SubSeq(events, 1, Len(events) - 1)),
                        events[Len(events)])

\* events.sort((a, b) => a.offsetDivisions - b.offsetDivisions).  When the
\* comparison is not consistent the order is implementation-defined: the
\* events are left as they are here, and the action that sorts draws the
\* order from SortOutcomes.
SortByOffset(events) ==
    IF ConsistentOffsets(events) THEN StableSortByOffset(events) ELSE events

\* The orders that sort can leave the events in: the stable sorted order, or
\* any order when the comparison is not consistent.
SortOutcomes(events) ==
    IF ConsistentOffsets(events) THEN {SortByOffset(events)}
    ELSE {[i \in 1..Len(events) |-> events[p[i]]] :
             p \in {q \in [1..Len(events) -> 1..Len(events)] :
                       \A a, b \in 1..Len(events) : a # b => q[a] # q[b]}}

\* [...measure.harmonies].sort(...) of the renderers, for each measure.
ResortOutcomes(measures) ==
    IF \A m \in 1..Len(measures) : ConsistentOffsets(measures[m].harmonies)
    THEN {measures}
    ELSE {[m \in 1..Len(measures) |-> [measures[m] EXCEPT !.harmonies = pick[m]]] :
             pick \in {f \in [1..Len(measures) ->
                                 UNION {SortOutcomes(measures[m].harmonies) :
                                           m \in 1..Len(measures)}] :
                          \A m \in 1..Len(measures) :
                              f[m] \in SortOutcomes(measures[m].harmonies)}}

formatChordPrefix(chords, style) ==
    IF Len(chords) = 0 THEN ""
    ELSE IF style = "combined" THEN "[" \o JoinWith(chords, " ") \o "]"
    ELSE JoinWith([i \in 1..Len(chords) |-> "[" \o chords[i] \o "]"], "")

\* A plausible slip: the loop looks one syllable ahead, so that a harmony is
\* put on the last syllable that starts before it.
RECURSIVE CarryForwardLookAhead(_, _, _)
CarryForwardLookAhead(sortedLyrics, carryIndex, hOffset) ==
    IF carryIndex < Len(sortedLyrics) - 1
       /\ sortedLyrics[carryIndex + 2].offsetDivisions < hOffset
    THEN CarryForwardLookAhead(sortedLyrics, carryIndex + 1, hOffset)
    ELSE carryIndex

\* A plausible slip: "<=" for "<", so that a harmony on a syllable's own
\* offset moves on to the next syllable.
RECURSIVE CarryForwardInclusive(_, _, _)
CarryForwardInclusive(sortedLyrics, carryIndex, hOffset) ==
    IF carryIndex < Len(sortedLyrics) - 1
       /\ sortedLyrics[carryIndex + 1].offsetDivisions <= hOffset
    THEN CarryForwardInclusive(sortedLyrics, carryIndex + 1, hOffset)
    ELSE carryIndex

\* The while loop of renderSingleMeasureLyrics: carryIndex (0-based) after
\* it has run for a harmony at hOffset.
RECURSIVE CarryForward(_, _, _)
CarryForward(sortedLyrics, carryIndex, hOffset) ==
    IF carryIndex < Len(sortedLyrics) - 1
       /\ ~IsNaN(hOffset)
       /\ sortedLyrics[carryIndex + 1].offsetDivisions < hOffset
    THEN CarryForward(sortedLyrics, carryIndex + 1, hOffset)
    ELSE carryIndex

\* The lyric index (0-based) each harmony is bucketed under, in the order of
\* sortedHarmonies: the "for (const harmony of sortedHarmonies)" loop.
RECURSIVE AttachIndices(_, _, _)
AttachIndices(sortedLyrics, sortedHarmonies, carryIndex) ==
    IF Len(sortedHarmonies) = 0 THEN <<>>
    ELSE LET next == CarryForward(sortedLyrics, carryIndex,
                               Head(sortedHarmonies).offsetDivisions)
         IN  <<next>> \o AttachIndices(sortedLyrics, Tail(sortedHarmonies), next)

\* chordBucket.get(lyricIdx) ?? []
RECURSIVE BucketOf(_, _, _)
BucketOf(sortedHarmonies, attach, lyricIdx) ==
    IF Len(sortedHarmonies) = 0 THEN <<>>
    ELSE (IF Head(attach) = lyricIdx THEN <<Head(sortedHarmonies).chordText>> ELSE <<>>)
           \o BucketOf(Tail(sortedHarmonies), Tail(attach), lyricIdx)

IsSpace(ch) == ch \in Whitespace

\* joined.replace(/\s+/g, " ")
RECURSIVE CollapseWhitespace(_)
CollapseWhitespace(s) ==
    IF Len(s) = 0 THEN ""
    ELSE IF IsSpace(CharAt(s, 0))
         THEN IF Len(s) >= 2 /\ IsSpace(CharAt(s, 1))
              THEN CollapseWhitespace(Tail(s))
              ELSE " " \o CollapseWhitespace(Tail(s))
         ELSE CharAt(s, 0) \o CollapseWhitespace(Tail(s))

renderSingleMeasureLyrics(measure, lyricEvents, opts) ==
    IF Len(lyricEvents) = 0
    THEN IF Len(measure.harmonies) > 0
         THEN "[" \o measure.harmonies[1].chordText \o "]"
         ELSE ""
    ELSE LET sortedLyrics == SortByOffset(lyricEvents)
             sortedHarmonies == SortByOffset(measure.harmonies)
             attach == AttachIndices(sortedLyrics, sortedHarmonies, 0)
             token(i) ==
                 formatChordPrefix(BucketOf(sortedHarmonies, attach, i - 1),
                                   opts.chordBracketStyle)
                   \o sortedLyrics[i].text
                   \o (IF sortedLyrics[i].syllabic \in {"begin", "middle"} THEN "-" ELSE "")
             joined == JoinWith([i \in 1..Len(sortedLyrics) |-> token(i)], " ")
         IN  IF opts.normalizeWhitespace THEN trim(CollapseWhitespace(joined)) ELSE joined

\* measureTexts.slice(idx, idx + chunkSize) for idx = 0, chunkSize, ...
RECURSIVE WrapChunks(_, _, _)
WrapChunks(measureTexts, chunkSize, usePipes) ==
    IF Len(measureTexts) = 0 THEN <<>>
    ELSE LET chunk == SubSeq(measureTexts, 1, Min(chunkSize, Len(measureTexts)))
             rest == SubSeq(measureTexts, Min(chunkSize, Len(measureTexts)) + 1,
                            Len(measureTexts))
         IN  <<IF usePipes THEN "| " \o JoinWith(chunk, " | ") \o " |"
               ELSE JoinWith(chunk, "  ")>>
               \o WrapChunks(rest, chunkSize, usePipes)

\* A plausible slip: no default for a barsPerLine of 0.
emitWrappedBarsNoDefault(measureTexts, opts) ==
    IF Len(measureTexts) = 0 THEN <<>>
    ELSE LET chunkSize == IF opts.wrapPolicy = "no-wrap" THEN Len(measureTexts)
                          ELSE Max(1, opts.barsPerLine)
         IN  WrapChunks(measureTexts, chunkSize, opts.barlineStyle = "pipes")

\* options.barsPerLine || 4 : 0 is falsy.
emitWrappedBars(measureTexts, opts) ==
    IF Len(measureTexts) = 0 THEN <<>>
    ELSE LET barsPerLine == Max(1, IF opts.barsPerLine # 0 THEN opts.barsPerLine ELSE 4)
             chunkSize == IF opts.wrapPolicy = "no-wrap" THEN Len(measureTexts)
                          ELSE barsPerLine
         IN  WrapChunks(measureTexts, chunkSize, opts.barlineStyle = "pipes")

\* measure.lyricsByVerse[verse] ?? []
LyricsOfVerse(measure, verse) ==
    IF verse \in DOMAIN measure.lyricsByVerse THEN measure.lyricsByVerse[verse] ELSE <<>>

\* The lines one verse contributes: the body of verseKeys.forEach.
RenderVerse(measures, verseKeys, verseIdx, opts) ==
    LET verse == verseKeys[verseIdx]
        measureTexts ==
            [i \in 1..Len(measures) |->
                renderSingleMeasureLyrics(measures[i], LyricsOfVerse(measures[i], verse), opts)]
    IN  (IF Len(verseKeys) > 1
         THEN <<"{start_of_verse}", "{comment: Verse " \o verse \o "}">>
         ELSE <<>>)
        \o emitWrappedBars(measureTexts, opts)
        \o (IF Len(verseKeys) > 1
            THEN <<"{end_of_verse}">> \o (IF verseIdx < Len(verseKeys) THEN <<"">> ELSE <<>>)
            ELSE <<>>)

RECURSIVE RenderVersesFrom(_, _, _, _)
RenderVersesFrom(measures, verseKeys, verseIdx, opts) ==
    IF verseIdx > Len(verseKeys) THEN <<>>
    ELSE RenderVerse(measures, verseKeys, verseIdx, opts)
           \o RenderVersesFrom(measures, verseKeys, verseIdx + 1, opts)

renderLyricsInline(measures, verseKeys, opts) ==
    RenderVersesFrom(measures, verseKeys, 1, opts)

-----------------------------------------------------------------------------
(* Numbers read from text *)

Digits == "0123456789"

IsDigit(ch) == Len(ch) = 1 /\ includesChar(Digits, ch)

\* The value of the leading run of digits of s, with the number of digits.
RECURSIVE DigitRun(_, _, _)
DigitRun(s, acc, n) ==
    IF Len(s) > 0 /\ IsDigit(CharAt(s, 0))
    THEN DigitRun(Tail(s), acc * 10 + indexOf(Digits, CharAt(s, 0)), n + 1)
    ELSE [val |-> acc, digits |-> n, rest |-> s]

\* Number.parseInt(text, 10): leading white space, a sign, digits; anything
\* after the digits is ignored; no digit gives NaN (ok = FALSE).
ParseInt(text) ==
    LET t == trimStart(text)
        neg == Len(t) > 0 /\ CharAt(t, 0) = "-"
        body == IF Len(t) > 0 /\ CharAt(t, 0) \in {"-", "+"} THEN Tail(t) ELSE t
        run == DigitRun(body, 0, 0)
    IN  [ok |-> run.digits > 0, val |-> IF neg THEN 0 - run.val ELSE run.val]

\* parseIntText(text, fallback): "" stands for a missing element or text.
parseIntText(text, fallback) ==
    IF text = "" THEN fallback
    ELSE IF ParseInt(trim(text)).ok THEN ParseInt(trim(text)).val ELSE fallback

-----------------------------------------------------------------------------
(* Grid rendering and measure order *)

\* timeSignature.split("/")[0]
BeforeSlash(s) == IF includesChar(s, "/") THEN Slice(s, 0, indexOf(s, "/")) ELSE s

\* gridSlotsPerMeasure undefined is modelled as 0: both fail "> 0".
resolveGridSlotsPerMeasure(opts, timeSignature) ==
    IF opts.gridSlotsPerMeasure > 0 THEN opts.gridSlotsPerMeasure
    ELSE IF timeSignature = "" THEN 4
    ELSE LET beats == ParseInt(BeforeSlash(timeSignature)) IN
         IF ~beats.ok \/ beats.val <= 0 THEN 4 ELSE beats.val

RECURSIVE Pow2(_)
Pow2(n) == IF n <= 0 THEN 1 ELSE 2 * Pow2(n - 1)

\* 2^n modulo d
RECURSIVE Pow2Mod(_, _)
Pow2Mod(n, d) == IF n <= 0 THEN 1 % d ELSE (2 * Pow2Mod(n - 1, d)) % d

RECURSIVE FloorLog2(_)
FloorLog2(k) == IF k <= 1 THEN 0 ELSE 1 + FloorLog2(k \div 2)

\* The a with 2^-a <= o/d < 2^(1-a), for o, d > 0: o/d as a double is
\* m * 2^-(52+a) with a 53-bit m.
RECURSIVE BinaryExponent(_, _, _)
BinaryExponent(o, d, a) ==
    IF a >= 0 /\ o * Pow2(a) < d THEN BinaryExponent(o, d, a + 1)
    ELSE IF a <= 0 /\ o >= 2 * d * Pow2(0 - a) THEN BinaryExponent(o, d, a - 1)
    ELSE a

\* Math.floor((o / d) * n) as IEEE-754 double arithmetic computes it, for
\* integers o, n and d >= 1.  The quotient o/d is rounded to 53 bits, the
\* product with n is rounded again, then floored.  Both roundings are far
\* smaller than 1/d, so the result differs from floor(o*n/d) only when o*n/d
\* is a whole number k, the quotient was rounded down (remainder r of
\* o * 2^(52+a) by d with 0 < 2r < d), and the product, k - r*n/(d * 2^(52+a)),
\* lies more than half a unit in the last place below k: then it rounds to
\* the double just below k and the floor is k - 1.
DoubleFloorOfScaled(o, d, n) ==
    IF o <= 0 THEN (o * n) \div d
    ELSE LET k == (o * n) \div d
             a == BinaryExponent(o, d, 0)
             r == (o * Pow2Mod(52 + a, d)) % d
             j == FloorLog2(k)
             e == IF k = Pow2(j) THEN a + j - 2 ELSE a + j - 1
             below == IF e >= 0 THEN r * n > d * Pow2(e)
                      ELSE r * n * Pow2(0 - e) > d
         IN  IF (o * n) % d = 0 /\ r # 0 /\ 2 * r < d /\ below THEN k - 1 ELSE k

\* Math.floor((offset / Math.max(1, duration)) * slots), then the clamp;
\* NaN for an offset that is NaN (Math.min and Math.max return NaN).
GridSlotIndex(harmony, measure, slotsPerMeasure) ==
    IF measure.durationDivisions > 0 /\ IsNaN(harmony.offsetDivisions) THEN NaN
    ELSE LET slotIndexRaw ==
                 IF measure.durationDivisions > 0
                 THEN DoubleFloorOfScaled(harmony.offsetDivisions,
                                          Max(1, measure.durationDivisions), slotsPerMeasure)
                 ELSE 0
         IN  Max(0, Min(slotsPerMeasure - 1, slotIndexRaw))

\* The "for (const harmony of harmonies)" loop of renderGrid over one
\* measure: the slots and the number of collisions.
RECURSIVE FillSlots(_, _, _, _, _)
FillSlots(harmonies, measure, slotsPerMeasure, slots, collisions) ==
    IF Len(harmonies) = 0 THEN [slots |-> slots, collisions |-> collisions]
    ELSE LET slotIndex == GridSlotIndex(Head(harmonies), measure, slotsPerMeasure) IN
         IF IsNaN(slotIndex) \/ slotIndex + 1 > Len(slots) \/ slots[slotIndex + 1] # "."
         THEN FillSlots(Tail(harmonies), measure, slotsPerMeasure, slots, collisions + 1)
         ELSE FillSlots(Tail(harmonies), measure, slotsPerMeasure,
                        [slots EXCEPT ![slotIndex + 1] = "[" \o Head(harmonies).chordText \o "]"],
                        collisions)

GridOfMeasure(measure, slotsPerMeasure) ==
    FillSlots(SortByOffset(measure.harmonies), measure, slotsPerMeasure,
              [i \in 1..slotsPerMeasure |-> "."], 0)

RECURSIVE SumOver(_, _)
SumOver(f, n) == IF n = 0 THEN 0 ELSE f[n] + SumOver(f, n - 1)

RECURSIVE IntToText(_)
IntToText(n) ==
    IF n < 0 THEN "-" \o IntToText(0 - n)
    ELSE IF n < 10 THEN CharAt(Digits, n)
    ELSE IntToText(n \div 10) \o CharAt(Digits, n % 10)

\* renderGrid: the lines, and the warnings it pushes.
renderGrid(measures, opts, timeSignature) ==
    LET slotsPerMeasure == resolveGridSlotsPerMeasure(opts, timeSignature)
        grids == [i \in 1..Len(measures) |-> GridOfMeasure(measures[i], slotsPerMeasure)]
        measureTexts == [i \in 1..Len(measures) |-> JoinWith(grids[i].slots, " ")]
        measuresWithMultipleChords ==
            SumOver([i \in 1..Len(measures) |->
                        IF Len(measures[i].harmonies) > 1 THEN 1 ELSE 0], Len(measures))
        totalCollisions ==
            SumOver([i \in 1..Len(measures) |-> grids[i].collisions], Len(measures))
    IN  [lines |-> <<"{start_of_grid}">> \o emitWrappedBars(measureTexts, opts)
                     \o <<"{end_of_grid}">>,
         warnings |->
            (IF measuresWithMultipleChords > 0
             THEN <<"Grid quantized to " \o IntToText(slotsPerMeasure)
                      \o " slots/measure; " \o IntToText(measuresWithMultipleChords)
                      \o " measures contain multiple chord changes.">>
             ELSE <<>>)
            \o (IF totalCollisions > 0
                THEN <<"Chord collisions within same slot: " \o IntToText(totalCollisions)
                         \o ". Consider higher grid resolution.">>
                ELSE <<>>)]

\* measures.findIndex(pred from index `from`), 0-based, -1 when none.
RECURSIVE FindIndexFrom(_, _, _)
FindIndexFrom(flags, from, n) ==
    IF from >= n THEN -1
    ELSE IF flags[from + 1] THEN from
    ELSE FindIndexFrom(flags, from + 1, n)

\* A plausible slip: the search for the repeat end starts at the repeat
\* start itself ("index >= startIdx").
resolveMeasureOrderEndAtStart(measures, opts, endingsFound) ==
    LET baseOrder == [i \in 1..Len(measures) |-> measures[i].measureIndex]
        starts == [i \in 1..Len(measures) |-> measures[i].repeatStart]
        ends == [i \in 1..Len(measures) |-> measures[i].repeatEnd]
        startIdx == FindIndexFrom(starts, 0, Len(measures))
        endIdx == FindIndexFrom(ends, Max(0, startIdx), Len(measures))
    IN  IF opts.repeatStrategy # "simple-unroll" THEN [order |-> baseOrder, warnings |-> <<>>]
        ELSE IF endingsFound > 0
             THEN [order |-> baseOrder, warnings |-> <<"unsupported endings">>]
        ELSE IF startIdx < 0 THEN [order |-> baseOrder, warnings |-> <<>>]
        ELSE IF endIdx < 0 THEN [order |-> baseOrder, warnings |-> <<>>]
        ELSE [order |-> SubSeq(baseOrder, 1, endIdx + 1)
                          \o SubSeq(baseOrder, startIdx + 1, endIdx + 1)
                          \o SubSeq(baseOrder, endIdx + 2, Len(baseOrder)),
              warnings |-> <<>>]

\* resolveMeasureOrder: the order, and the warnings it pushes.
resolveMeasureOrder(measures, opts, endingsFound) ==
    LET baseOrder == [i \in 1..Len(measures) |-> measures[i].measureIndex]
        starts == [i \in 1..Len(measures) |-> measures[i].repeatStart]
        ends == [i \in 1..Len(measures) |-> measures[i].repeatEnd]
        startIdx == FindIndexFrom(starts, 0, Len(measures))
        endIdx == FindIndexFrom(ends, startIdx + 1, Len(measures))
    IN  IF opts.repeatStrategy # "simple-unroll" THEN [order |-> baseOrder, warnings |-> <<>>]
        ELSE IF endingsFound > 0
             THEN [order |-> baseOrder, warnings |-> <<"unsupported endings">>]
        ELSE IF startIdx < 0 THEN [order |-> baseOrder, warnings |-> <<>>]
        ELSE IF endIdx < 0 THEN [order |-> baseOrder, warnings |-> <<>>]
        ELSE [order |-> SubSeq(baseOrder, 1, endIdx + 1)
                          \o SubSeq(baseOrder, startIdx + 1, endIdx + 1)
                          \o SubSeq(baseOrder, endIdx + 2, Len(baseOrder)),
              warnings |-> <<>>]

-----------------------------------------------------------------------------
(* The parsed score.  An element is a record with its tag; a text or        *)
(* attribute that is missing or empty is "".                               *)

Note(duration, lyrics) == [tag |-> "note", duration |-> duration, lyrics |-> lyrics]

Lyric(number, text, syllabic) ==
    [number |-> number, text |-> text, syllabic |-> syllabic, extend |-> FALSE]

Backup(duration) == [tag |-> "backup", duration |-> duration]

Forward(duration) == [tag |-> "forward", duration |-> duration]

\* <harmony>: root-step, root-alter, kind (text attribute and content),
\* bass-step, bass-alter, and the optional <offset> child.
HarmonyEl(rootStep, rootAlter, kind, hasOffset, offset) ==
    [tag |-> "harmony", rootStep |-> rootStep, rootAlter |-> rootAlter,
     hasKind |-> TRUE, kindText |-> "", kind |-> kind,
     bassStep |-> "", bassAlter |-> "",
     hasOffset |-> hasOffset, offset |-> offset]

Attributes(divisions, fifths, mode, beats, beatType) ==
    [tag |-> "attributes", divisions |-> divisions, fifths |-> fifths, mode |-> mode,
     beats |-> beats, beatType |-> beatType]

\* <barline> with an optional <repeat direction=...> and an optional
\* <ending number=...>.
Barline(repeat, ending) == [tag |-> "barline", repeat |-> repeat, ending |-> ending]

KIND_SUFFIX_MAP ==
    [major |-> "", minor |-> "m", dominant |-> "7", diminished |-> "dim",
     augmented |-> "aug"]
      @@ ("major-seventh" :> "maj7") @@ ("minor-seventh" :> "m7")

RECURSIVE Repeat(_, _)
Repeat(ch, n) == IF n <= 0 THEN "" ELSE ch \o Repeat(ch, n - 1)

accidentalFromAlter(alter) ==
    IF alter > 0 THEN Repeat("#", alter)
    ELSE IF alter < 0 THEN Repeat("b", 0 - alter)
    ELSE ""

harmonyToChordText(h) ==
    LET rootStep == trim(h.rootStep) IN
    IF rootStep = "" THEN ""
    ELSE LET root == rootStep \o accidentalFromAlter(parseIntText(h.rootAlter, 0))
             kindText == trim(h.kindText)
             kindValue == IF h.hasKind THEN trim(h.kind) ELSE "major"
             suffix == IF kindText # "" THEN kindText
                       ELSE IF kindValue \in DOMAIN KIND_SUFFIX_MAP
                            THEN KIND_SUFFIX_MAP[kindValue]
                            ELSE kindValue
             bassStep == trim(h.bassStep)
             bass == IF bassStep # ""
                     THEN bassStep \o accidentalFromAlter(parseIntText(h.bassAlter, 0))
                     ELSE ""
         IN  root \o suffix \o (IF bass # "" THEN "/" \o bass ELSE "")

RECURSIVE Pow10(_)
Pow10(n) == IF n = 0 THEN 1 ELSE 10 * Pow10(n - 1)

\* parseFloat(text) as a fraction num / den: sign, digits, an optional
\* fraction part.  (Exponents are not modelled.)
ParseFloat(text) ==
    LET t == trimStart(text)
        neg == Len(t) > 0 /\ CharAt(t, 0) = "-"
        body == IF Len(t) > 0 /\ CharAt(t, 0) \in {"-", "+"} THEN Tail(t) ELSE t
        whole == DigitRun(body, 0, 0)
        hasPoint == Len(whole.rest) > 0 /\ CharAt(whole.rest, 0) = "."
        frac == IF hasPoint THEN DigitRun(Tail(whole.rest), 0, 0)
                ELSE [val |-> 0, digits |-> 0, rest |-> whole.rest]
        den == Pow10(frac.digits)
        num == whole.val * den + frac.val
    IN  [ok |-> whole.digits + frac.digits > 0,
         num |-> IF neg THEN 0 - num ELSE num, den |-> den]

\* Math.max(0, Math.round(parseFloat(offsetRaw) * divisions)); Math.round
\* rounds a half up.  An <offset> whose text is no number gives NaN.
HarmonyOffset(h, cursor, divisions) ==
    IF h.hasOffset
    THEN LET f == ParseFloat(h.offset) IN
         IF ~f.ok THEN NaN
         ELSE Max(0, (2 * f.num * divisions + f.den) \div (2 * f.den))
    ELSE cursor

\* The harmonies one part's measure adds to the dedupe map, walking its
\* children with the cursor.
RECURSIVE HarmoniesOfChildren(_, _, _, _, _)
HarmoniesOfChildren(children, cursor, measureIndex, divisions, dedupe) ==
    IF Len(children) = 0 THEN dedupe
    ELSE LET child == Head(children)
             rest == Tail(children)
         IN  IF child.tag = "backup"
             THEN HarmoniesOfChildren(rest, Max(0, cursor - parseIntText(child.duration, 0)),
                                      measureIndex, divisions, dedupe)
             ELSE IF child.tag \in {"forward", "note"}
             THEN HarmoniesOfChildren(rest, cursor + parseIntText(child.duration, 0),
                                      measureIndex, divisions, dedupe)
             ELSE IF child.tag = "harmony"
             THEN LET offset == HarmonyOffset(child, cursor, divisions)
                      chordText == harmonyToChordText(child)
                      seen == \E i \in 1..Len(dedupe) :
                                 /\ dedupe[i].offsetDivisions = offset
                                 /\ dedupe[i].chordText = chordText
                  IN  HarmoniesOfChildren(rest, cursor, measureIndex, divisions,
                          IF chordText = "" \/ seen THEN dedupe
                          ELSE Append(dedupe, [measureIndex |-> measureIndex,
                                               offsetDivisions |-> offset,
                                               chordText |-> chordText]))
             ELSE HarmoniesOfChildren(rest, cursor, measureIndex, divisions, dedupe)

RECURSIVE HarmoniesOfParts(_, _, _, _)
HarmoniesOfParts(allPartsMeasures, measureIndex, divisions, dedupe) ==
    IF Len(allPartsMeasures) = 0 THEN dedupe
    ELSE LET partMeasures == Head(allPartsMeasures) IN
         HarmoniesOfParts(Tail(allPartsMeasures), measureIndex, divisions,
             IF measureIndex + 1 > Len(partMeasures) THEN dedupe
             ELSE HarmoniesOfChildren(partMeasures[measureIndex + 1], 0, measureIndex,
                                      divisions, dedupe))

collectHarmoniesForMeasure(allPartsMeasures, measureIndex, divisions) ==
    SortByOffset(HarmoniesOfParts(allPartsMeasures, measureIndex, divisions, <<>>))

normalizeSyllabic(input) ==
    IF input \in {"single", "begin", "middle", "end"} THEN input ELSE ""

\* The lyric events of one note, appended to lyricsByVerse.
RECURSIVE AddLyrics(_, _, _, _)
AddLyrics(lyricNodes, noteStart, measureIndex, lyricsByVerse) ==
    IF Len(lyricNodes) = 0 THEN lyricsByVerse
    ELSE LET lyricEl == Head(lyricNodes)
             text == trim(lyricEl.text)
             verse == IF trim(lyricEl.number) # "" THEN trim(lyricEl.number) ELSE "1"
             event == [verse |-> verse, measureIndex |-> measureIndex,
                       offsetDivisions |-> noteStart, text |-> text,
                       syllabic |-> normalizeSyllabic(trim(lyricEl.syllabic)),
                       extend |-> lyricEl.extend]
         IN  AddLyrics(Tail(lyricNodes), noteStart, measureIndex,
                 IF text = "" THEN lyricsByVerse
                 ELSE IF verse \in DOMAIN lyricsByVerse
                      THEN [lyricsByVerse EXCEPT ![verse] = Append(@, event)]
                      ELSE lyricsByVerse @@ (verse :> <<event>>))

\* The keys an empty object literal inherits from Object.prototype:
\* lyricsByVerse[key] is then a function or an object, never nullish.
ObjectPrototypeKeys ==
    {"constructor", "hasOwnProperty", "isPrototypeOf", "propertyIsEnumerable",
     "toLocaleString", "toString", "valueOf", "__proto__", "__defineGetter__",
     "__defineSetter__", "__lookupGetter__", "__lookupSetter__"}

\* (lyricsByVerse[verse] ??= []).push(event) throws a TypeError when the
\* verse is an inherited key: the value found has no push method.
LyricPushThrows(measureEl) ==
    \E i \in 1..Len(measureEl) :
        /\ measureEl[i].tag = "note"
        /\ \E j \in 1..Len(measureEl[i].lyrics) :
              /\ trim(measureEl[i].lyrics[j].text) # ""
              /\ trim(measureEl[i].lyrics[j].number) \in ObjectPrototypeKeys

\* The message of that TypeError; its wording is the engine's.
PushTypeErrorMessages ==
    {"(intermediate value).push is not a function",
     "lyricsByVerse[verse].push is not a function"}

\* The walk of buildMeasureData over the children of a measure of the lyric
\* part: the cursor, the duration and the lyric events.
RECURSIVE WalkMeasure(_, _, _, _, _)
WalkMeasure(children, measureIndex, cursor, durationDivisions, lyricsByVerse) ==
    IF Len(children) = 0
    THEN [cursor |-> cursor, durationDivisions |-> durationDivisions,
          lyricsByVerse |-> lyricsByVerse]
    ELSE LET child == Head(children)
             rest == Tail(children)
             shift == parseIntText(child.duration, 0)
         IN  IF child.tag = "backup"
             THEN WalkMeasure(rest, measureIndex, Max(0, cursor - shift),
                              durationDivisions, lyricsByVerse)
             ELSE IF child.tag = "forward"
             THEN WalkMeasure(rest, measureIndex, cursor + shift,
                              Max(durationDivisions, cursor + shift), lyricsByVerse)
             ELSE IF child.tag # "note"
             THEN WalkMeasure(rest, measureIndex, cursor, durationDivisions, lyricsByVerse)
             ELSE WalkMeasure(rest, measureIndex, cursor + shift,
                              Max(durationDivisions, cursor + shift),
                              AddLyrics(child.lyrics, cursor, measureIndex, lyricsByVerse))

UpperCase == "ABCDEFGHIJKLMNOPQRSTUVWXYZ"

LowerCase == "abcdefghijklmnopqrstuvwxyz"

RECURSIVE toLowerCase(_)
toLowerCase(s) ==
    IF Len(s) = 0 THEN ""
    ELSE (IF includesChar(UpperCase, CharAt(s, 0))
          THEN CharAt(LowerCase, indexOf(UpperCase, CharAt(s, 0)))
          ELSE CharAt(s, 0)) \o toLowerCase(Tail(s))

\* s.split(ch)
RECURSIVE SplitBy(_, _)
SplitBy(s, ch) ==
    IF ~includesChar(s, ch) THEN <<s>>
    ELSE <<Slice(s, 0, indexOf(s, ch))>> \o SplitBy(SliceFrom(s, indexOf(s, ch) + 1), ch)

\* The elements of a finite set of integers in increasing order.
RECURSIVE SortedSeq(_)
SortedSeq(S) ==
    IF S = {} THEN <<>>
    ELSE LET least == CHOOSE x \in S : \A y \in S : x <= y
         IN  <<least>> \o SortedSeq(S \ {least})

\* The numbers of one ending's number attribute ("1", "1,2").
EndingNumbers(numberText) ==
    IF trim(numberText) = "" THEN {}
    ELSE LET tokens == SplitBy(trim(numberText), ",") IN
         {ParseInt(trim(tokens[i])).val :
             i \in {j \in 1..Len(tokens) : ParseInt(trim(tokens[j])).ok}}

parseEndings(measureEl) ==
    SortedSeq(UNION {EndingNumbers(measureEl[i].ending) :
                        i \in {j \in 1..Len(measureEl) : measureEl[j].tag = "barline"}})

HasRepeat(measureEl, direction) ==
    \E i \in 1..Len(measureEl) :
        measureEl[i].tag = "barline" /\ measureEl[i].repeat = direction

\* measureEl.querySelector("attributes > divisions")?.textContent?.trim():
\* the first <divisions> of the measure.
DivisionsText(measureEl) ==
    LET withDivisions == {i \in 1..Len(measureEl) :
                             measureEl[i].tag = "attributes" /\ measureEl[i].divisions # ""}
    IN  IF withDivisions = {} THEN ""
        ELSE trim(measureEl[CHOOSE i \in withDivisions : \A j \in withDivisions : i <= j].divisions)

NextDivisions(measureEl, divisions) ==
    LET divisionsText == DivisionsText(measureEl) IN
    IF divisionsText # "" /\ ParseInt(divisionsText).ok /\ ParseInt(divisionsText).val > 0
    THEN ParseInt(divisionsText).val
    ELSE divisions

\* One pass of lyricMeasures.forEach in buildMeasureData: the MeasureData
\* pushed, the divisions carried to the next measure and the warnings pushed.
\* repeatStart, repeatEnd and endings that are undefined in the code are
\* FALSE, FALSE and <<>>.
BuildMeasure(measureEl, measureIndex, divisionsBefore, allPartsMeasures, opts) ==
    LET divisions == NextDivisions(measureEl, divisionsBefore)
        walk == WalkMeasure(measureEl, measureIndex, 0, 0, <<>>)
        lyricsByVerse == [v \in DOMAIN walk.lyricsByVerse |-> SortByOffset(walk.lyricsByVerse[v])]
        endings == parseEndings(measureEl)
    IN  [data |-> [measureIndex |-> measureIndex,
                   durationDivisions |-> walk.durationDivisions,
                   harmonies |-> collectHarmoniesForMeasure(allPartsMeasures, measureIndex, divisions),
                   lyricsByVerse |-> lyricsByVerse,
                   repeatStart |-> HasRepeat(measureEl, "forward"),
                   repeatEnd |-> HasRepeat(measureEl, "backward"),
                   endings |-> endings],
         divisions |-> divisions,
         warnings |-> IF Len(endings) > 0 /\ opts.repeatStrategy = "simple-unroll"
                      THEN <<"unsupported endings">> ELSE <<>>]

\* part.querySelectorAll("lyric > text").length
RECURSIVE LyricTextCount(_)
LyricTextCount(children) ==
    IF Len(children) = 0 THEN 0
    ELSE (IF Head(children).tag = "note" THEN Len(Head(children).lyrics) ELSE 0)
           + LyricTextCount(Tail(children))

PartLyricCount(part) ==
    SumOver([i \in 1..Len(part.measures) |-> LyricTextCount(part.measures[i])],
            Len(part.measures))

\* selectLyricPart: the id of the best part ("" when it has none).
RECURSIVE SelectFrom(_, _, _)
SelectFrom(parts, bestId, bestCount) ==
    IF Len(parts) = 0 THEN bestId
    ELSE LET count == PartLyricCount(Head(parts)) IN
         IF count > bestCount THEN SelectFrom(Tail(parts), Head(parts).id, count)
         ELSE SelectFrom(Tail(parts), bestId, bestCount)

selectLyricPart(xml) == SelectFrom(xml.parts, "", -1)

\* parts.find((part) => part.getAttribute("id") === selectedLyricPartId) ?? parts[0];
\* a missing id attribute (null) never equals the selected id.
LyricPartIndex(xml, selectedLyricPartId) ==
    LET matching == {i \in 1..Len(xml.parts) :
                        xml.parts[i].id # "" /\ xml.parts[i].id = selectedLyricPartId}
    IN  IF matching = {} THEN 1
        ELSE CHOOSE i \in matching : \A j \in matching : i <= j

LyricMeasures(xml, selectedLyricPartId) ==
    IF Len(xml.parts) = 0 THEN <<>>
    ELSE xml.parts[LyricPartIndex(xml, selectedLyricPartId)].measures

AllPartsMeasures(xml) == [i \in 1..Len(xml.parts) |-> xml.parts[i].measures]

MajorByFifths ==
    <<"Cb", "Gb", "Db", "Ab", "Eb", "Bb", "F", "C", "G", "D", "A", "E", "B", "F#", "C#">>

MinorNotes == <<"C", "C#", "D", "Eb", "E", "F", "F#", "G", "G#", "A", "Bb", "B">>

NoteSemitones ==
    [C |-> 0, Db |-> 1, D |-> 2, Eb |-> 3, E |-> 4, Fb |-> 4, F |-> 5, Gb |-> 6,
     G |-> 7, Ab |-> 8, A |-> 9, Bb |-> 10, B |-> 11, Cb |-> 11]
      @@ ("B#" :> 0) @@ ("C#" :> 1) @@ ("D#" :> 3) @@ ("E#" :> 5) @@ ("F#" :> 6)
      @@ ("G#" :> 8) @@ ("A#" :> 10)

\* buildKeySignature: "" when the key is undefined.
buildKeySignature(fifthsRaw, modeRaw) ==
    IF fifthsRaw = "" \/ ~ParseInt(fifthsRaw).ok THEN ""
    ELSE LET idx == ParseInt(fifthsRaw).val + 7 IN
         IF idx < 0 \/ idx >= Len(MajorByFifths) THEN ""
         ELSE LET major == MajorByFifths[idx + 1] IN
              IF toLowerCase(IF modeRaw = "" THEN "major" ELSE modeRaw) = "minor"
              THEN IF major \notin DOMAIN NoteSemitones THEN major \o "m"
                   ELSE MinorNotes[((NoteSemitones[major] + 9) % 12) + 1] \o "m"
              ELSE major

\* All <attributes> elements that are children of a measure of a part, in
\* document order.
RECURSIVE Flatten(_)
Flatten(seqs) == IF Len(seqs) = 0 THEN <<>> ELSE Head(seqs) \o Flatten(Tail(seqs))

AllChildren(xml) ==
    Flatten([i \in 1..Len(xml.parts) |-> Flatten(xml.parts[i].measures)])

FirstAttributes(xml) ==
    LET children == AllChildren(xml)
        at == {i \in 1..Len(children) : children[i].tag = "attributes"}
    IN  IF at = {} THEN Attributes("", "", "", "", "")
        ELSE children[CHOOSE i \in at : \A j \in at : i <= j]

parseMetadata(xml) ==
    LET title == IF trim(xml.workTitle) # "" THEN trim(xml.workTitle)
                 ELSE trim(xml.movementTitle)
        firstAttributes == FirstAttributes(xml)
        beats == trim(firstAttributes.beats)
        beatType == trim(firstAttributes.beatType)
    IN  [title |-> title,
         composer |-> trim(xml.composer),
         key |-> buildKeySignature(trim(firstAttributes.fifths), trim(firstAttributes.mode)),
         time |-> IF beats # "" /\ beatType # "" THEN beats \o "/" \o beatType ELSE ""]

-----------------------------------------------------------------------------
(* convertMusicXmlToChordPro as a state machine *)

getDefaultConvertOptions ==
    [barsPerLine |-> 4, gridSlotsPerMeasure |-> 0, barlineStyle |-> "pipes",
     wrapPolicy |-> "bars-per-line", chordBracketStyle |-> "separate",
     formatMode |-> "auto", repeatStrategy |-> "none",
     annotateUnexpandedRepeats |-> TRUE, metadataPolicy |-> "emit",
     keyPolicy |-> "emit-if-known", timePolicy |-> "emit-if-known",
     normalizeWhitespace |-> TRUE]

InitialDiagnostics(xml, opts) ==
    [partsCount |-> Len(xml.parts), measuresCount |-> 0, versesDetected |-> <<>>,
     hasAnyLyrics |-> FALSE, hasAnyHarmony |-> FALSE, repeatMarkersFound |-> 0,
     endingsFound |-> 0, barsPerLine |-> opts.barsPerLine,
     formatModeResolved |-> "grid-only", selectedLyricPartId |-> "",
     title |-> "", composer |-> "", key |-> "", time |-> ""]

EmptyMetadata == [title |-> "", composer |-> "", key |-> "", time |-> ""]

\* No conversion is in progress.
XIdle ==
    /\ xpc = "idle"
    /\ xmlDoc = [wellFormed |-> FALSE, workTitle |-> "", movementTitle |-> "",
                 composer |-> "", parts |-> <<>>]
    /\ options = getDefaultConvertOptions
    /\ warnings = <<>>
    /\ diagnostics = InitialDiagnostics(xmlDoc, options)
    /\ metadata = EmptyMetadata
    /\ curDivisions = 1
    /\ measureList = <<>>
    /\ measureOrder = <<>>
    /\ chordPro = ""
    /\ error = ""

\* A call of convertMusicXmlToChordPro(input, options) has been made.
XStart(xml, opts) ==
    /\ xpc = "start"
    /\ xmlDoc = xml
    /\ options = opts
    /\ warnings = <<>>
    /\ diagnostics = InitialDiagnostics(xml, opts)
    /\ metadata = EmptyMetadata
    /\ curDivisions = 1
    /\ measureList = <<>>
    /\ measureOrder = <<>>
    /\ chordPro = ""
    /\ error = ""

\* DOMParser.parseFromString and the parsererror check: the degraded result
\* is returned at once, or the conversion goes on.
ParseXml ==
    /\ xpc = "start"
    /\ IF ~xmlDoc.wellFormed
       THEN /\ chordPro' = "{title: Untitled}\n% Failed to parse MusicXML."
            /\ error' = "MusicXML parser error"
            /\ xpc' = "done"
       ELSE /\ xpc' = "metadata"
            /\ UNCHANGED <<chordPro, error>>
    /\ UNCHANGED <<xmlDoc, options, warnings, diagnostics, metadata, curDivisions, measureList,
                   measureOrder, notX>>

\* parseMetadata and selectLyricPart.
ExtractMetadata ==
    /\ xpc = "metadata"
    /\ metadata' = parseMetadata(xmlDoc)
    /\ diagnostics' = [diagnostics EXCEPT
                          !.title = metadata'.title, !.composer = metadata'.composer,
                          !.key = metadata'.key, !.time = metadata'.time,
                          !.selectedLyricPartId = selectLyricPart(xmlDoc)]
    /\ xpc' = "measures"
    /\ UNCHANGED <<xmlDoc, options, warnings, curDivisions, measureList, measureOrder, chordPro,
                   error, notX>>

\* The text returned by the catch block.
ConversionFailedText == "{title: Untitled}\n% Failed to convert MusicXML."

\* One pass of lyricMeasures.forEach in buildMeasureData; an exception
\* thrown in it is caught by convertMusicXmlToChordPro, which returns at once.
BuildNextMeasure ==
    /\ xpc = "measures"
    /\ Len(measureList) < Len(LyricMeasures(xmlDoc, diagnostics.selectedLyricPartId))
    /\ LET measureIndex == Len(measureList)
           measureEl == LyricMeasures(xmlDoc, diagnostics.selectedLyricPartId)[measureIndex + 1]
           built == BuildMeasure(measureEl, measureIndex, curDivisions,
                                 AllPartsMeasures(xmlDoc), options)
       IN  IF LyricPushThrows(measureEl)
           THEN /\ \E message \in PushTypeErrorMessages : error' = message
                /\ chordPro' = ConversionFailedText
                /\ xpc' = "done"
                /\ UNCHANGED <<measureList, curDivisions, warnings>>
           ELSE /\ \E harmonies \in SortOutcomes(built.data.harmonies) :
                     measureList' = Append(measureList,
                                           [built.data EXCEPT !.harmonies = harmonies])
                /\ curDivisions' = built.divisions
                /\ warnings' = warnings \o built.warnings
                /\ UNCHANGED <<xpc, chordPro, error>>
    /\ UNCHANGED <<xmlDoc, options, diagnostics, metadata, measureOrder, notX>>

\* The verse keys with at least one lyric event, sorted as
\* a.localeCompare(b, undefined, {numeric: true}) sorts keys that are numbers.
VerseKeysOf(ms) ==
    UNION {{v \in DOMAIN ms[i].lyricsByVerse : Len(ms[i].lyricsByVerse[v]) > 0} :
              i \in 1..Len(ms)}

RECURSIVE SortVerses(_)
SortVerses(S) ==
    IF S = {} THEN <<>>
    ELSE LET least == CHOOSE v \in S : \A w \in S : ParseInt(v).val <= ParseInt(w).val
         IN  <<least>> \o SortVerses(S \ {least})

\* The statistics loop over the measures, then resolveMeasureOrder.
ResolveOrder ==
    /\ xpc = "measures"
    /\ Len(measureList) = Len(LyricMeasures(xmlDoc, diagnostics.selectedLyricPartId))
    /\ LET n == Len(measureList)
           repeatMarkersFound ==
               SumOver([i \in 1..n |->
                   IF measureList[i].repeatStart \/ measureList[i].repeatEnd THEN 1 ELSE 0], n)
           endingsFound == SumOver([i \in 1..n |-> Len(measureList[i].endings)], n)
           resolved == resolveMeasureOrder(measureList, options, endingsFound)
       IN  /\ diagnostics' = [diagnostics EXCEPT
                  !.measuresCount = n,
                  !.versesDetected = SortVerses(VerseKeysOf(measureList)),
                  !.hasAnyLyrics = (VerseKeysOf(measureList) # {}),
                  !.hasAnyHarmony = (\E i \in 1..n : Len(measureList[i].harmonies) > 0),
                  !.repeatMarkersFound = repeatMarkersFound,
                  !.endingsFound = endingsFound]
           /\ measureOrder' = resolved.order
           /\ warnings' = warnings \o resolved.warnings
    /\ xpc' = "render"
    /\ UNCHANGED <<xmlDoc, options, metadata, curDivisions, measureList, chordPro, error, notX>>

\* measureOrder.map((i) => measures[i]).filter(Boolean)
OrderedMeasures(ms, order) ==
    LET valid == SelectSeq(order, LAMBDA i : i >= 0 /\ i < Len(ms))
    IN  [k \in 1..Len(valid) |-> ms[valid[k] + 1]]

MetadataLines(meta, opts) ==
    IF opts.metadataPolicy = "emit"
    THEN (IF meta.title # "" THEN <<"{title: " \o meta.title \o "}">> ELSE <<>>)
         \o (IF meta.composer # "" THEN <<"{composer: " \o meta.composer \o "}">> ELSE <<>>)
         \o (IF opts.keyPolicy = "emit-if-known" /\ meta.key # ""
             THEN <<"{key: " \o meta.key \o "}">> ELSE <<>>)
         \o (IF opts.timePolicy = "emit-if-known" /\ meta.time # ""
             THEN <<"{time: " \o meta.time \o "}">> ELSE <<>>)
    ELSE <<>>

\* A plausible slip: the detection also overrides an explicit mode.
ResolveFormatModeDetectOnly(opts, hasAnyLyrics) ==
    IF hasAnyLyrics THEN "lyrics-inline" ELSE "grid-only"

ResolveFormatMode(opts, hasAnyLyrics) ==
    IF opts.formatMode = "auto"
    THEN (IF hasAnyLyrics THEN "lyrics-inline" ELSE "grid-only")
    ELSE opts.formatMode

\* if (lines.length === 0) lines.push("{title: Untitled}")
FinalLines(lines) == IF Len(lines) = 0 THEN <<"{title: Untitled}">> ELSE lines

\* A plausible slip: the note is written whatever the annotate option says.
UnexpandedRepeatsAlways(opts, repeatMarkersFound) ==
    opts.repeatStrategy = "none" /\ repeatMarkersFound > 0

\* The condition under which the repeat note is written.
UnexpandedRepeats(opts, repeatMarkersFound) ==
    /\ opts.repeatStrategy = "none"
    /\ repeatMarkersFound > 0
    /\ opts.annotateUnexpandedRepeats

\* Mode resolution, rendering, the repeat note and the assembly of the text.
\* (Array(slotsPerMeasure) throws for a slot count of 2^32 or more; the slot
\* counts of the model are small.)
Render ==
    /\ xpc = "render"
    /\ \E resorted \in ResortOutcomes(measureList) :
       LET orderedMeasures == OrderedMeasures(resorted, measureOrder)
           formatModeResolved == ResolveFormatMode(options, diagnostics.hasAnyLyrics)
           modeWarnings ==
               (IF ~diagnostics.hasAnyHarmony THEN <<"no harmony found">> ELSE <<>>)
               \o (IF ~diagnostics.hasAnyLyrics /\ formatModeResolved # "grid-only"
                   THEN <<"no lyrics found">> ELSE <<>>)
           head == MetadataLines(metadata, options)
           verseKeys == IF Len(diagnostics.versesDetected) > 0
                        THEN diagnostics.versesDetected ELSE <<"1">>
           grid == renderGrid(orderedMeasures, options, metadata.time)
           rendered == IF formatModeResolved = "lyrics-inline"
                       THEN renderLyricsInline(orderedMeasures, verseKeys, options)
                       ELSE grid.lines
           renderWarnings == IF formatModeResolved = "lyrics-inline" THEN <<>>
                             ELSE grid.warnings
           body == head
                     \o (IF Len(head) > 0 /\ Len(rendered) > 0 THEN <<"">> ELSE <<>>)
                     \o rendered
           unexpanded == UnexpandedRepeats(options, diagnostics.repeatMarkersFound)
           lines == body \o (IF unexpanded
                             THEN <<"% Repeats in the original score are not expanded.">>
                             ELSE <<>>)
       IN  /\ diagnostics' = [diagnostics EXCEPT !.formatModeResolved = formatModeResolved]
           /\ warnings' = warnings \o modeWarnings \o renderWarnings
                            \o (IF unexpanded THEN <<"repeats present but not expanded">>
                                ELSE <<>>)
           /\ chordPro' = JoinWith(FinalLines(lines), "\n")
    /\ xpc' = "done"
    /\ UNCHANGED <<xmlDoc, options, metadata, curDivisions, measureList, measureOrder, error, notX>>

XNext ==
    \/ ParseXml
    \/ ExtractMetadata
    \/ BuildNextMeasure
    \/ ResolveOrder
    \/ Render

-----------------------------------------------------------------------------
(* The chord chart parsers (chordProParser.ts) *)

includes(s, sub) == \E i \in 0..(Len(s) - Len(sub)) : Slice(s, i, i + Len(sub)) = sub

startsWith(s, prefix) == Len(s) >= Len(prefix) /\ Slice(s, 0, Len(prefix)) = prefix

\* s starts with the lower-case word in any case (the i flag).
startsWithAnyCase(s, word) ==
    Len(s) >= Len(word) /\ toLowerCase(Slice(s, 0, Len(word))) = word

DIRECTIVE_META ==
    [title |-> "title", t |-> "title", artist |-> "artist", a |-> "artist",
     subtitle |-> "subtitle", st |-> "subtitle", key |-> "key", capo |-> "capo",
     tempo |-> "tempo", time |-> "time"]

SECTION_START ==
    [start_of_chorus |-> "chorus", soc |-> "chorus", start_of_verse |-> "verse",
     sov |-> "verse", start_of_bridge |-> "bridge", sob |-> "bridge",
     start_of_grid |-> "grid", sog |-> "grid", start_of_tab |-> "tab", sot |-> "tab",
     start_of_pre_chorus |-> "pre-chorus", start_of_intro |-> "intro",
     start_of_outro |-> "outro", start_of_interlude |-> "interlude",
     start_of_solo |-> "solo"]

SECTION_END ==
    {"end_of_chorus", "eoc", "end_of_verse", "eov", "end_of_bridge", "eob",
     "end_of_grid", "eog", "end_of_tab", "eot", "end_of_pre_chorus", "end_of_intro",
     "end_of_outro", "end_of_interlude", "end_of_solo"}

\* The keywords of UG_SECTION_RE, lower-cased; Pre-?Chorus is two of them.
UG_SECTION_KEYWORDS ==
    {"verse", "chorus", "bridge", "intro", "outro", "pre-chorus", "prechorus",
     "interlude", "hook", "solo", "instrumental", "refrain"}

\* UG_SECTION_RE.test(line): "[", a keyword in any case, characters other
\* than "]", and "]" at the end.
UG_SECTION_RE(line) ==
    /\ Len(line) >= 2
    /\ CharAt(line, 0) = "["
    /\ CharAt(line, Len(line) - 1) = "]"
    /\ LET inner == Slice(line, 1, Len(line) - 1) IN
       /\ ~includesChar(inner, "]")
       /\ \E k \in UG_SECTION_KEYWORDS : startsWithAnyCase(inner, k)

\* text.replace(/\r\n/g, "\n").replace(/\r/g, "\n")
RECURSIVE normalizeLineEndings(_)
normalizeLineEndings(text) ==
    IF Len(text) = 0 THEN ""
    ELSE IF CharAt(text, 0) = "\r"
         THEN "\n" \o normalizeLineEndings(
                         IF Len(text) >= 2 /\ CharAt(text, 1) = "\n"
                         THEN SliceFrom(text, 2) ELSE SliceFrom(text, 1))
         ELSE CharAt(text, 0) \o normalizeLineEndings(SliceFrom(text, 1))

\* A plausible slip (or repair): pre-chorus is asked for before chorus.
sectionTypeFromLabelPreFirst(label) ==
    LET l == toLowerCase(label) IN
    IF includes(l, "pre-chorus") \/ includes(l, "prechorus") THEN "pre-chorus"
    ELSE IF includes(l, "chorus") THEN "chorus"
    ELSE IF includes(l, "verse") THEN "verse"
    ELSE IF includes(l, "bridge") THEN "bridge"
    ELSE IF includes(l, "intro") THEN "intro"
    ELSE IF includes(l, "outro") THEN "outro"
    ELSE IF includes(l, "interlude") THEN "interlude"
    ELSE IF includes(l, "solo") THEN "solo"
    ELSE IF includes(l, "grid") THEN "grid"
    ELSE IF includes(l, "tab") THEN "tab"
    ELSE "unknown"

sectionTypeFromLabel(label) ==
    LET l == toLowerCase(label) IN
    IF includes(l, "chorus") THEN "chorus"
    ELSE IF includes(l, "verse") THEN "verse"
    ELSE IF includes(l, "bridge") THEN "bridge"
    ELSE IF includes(l, "intro") THEN "intro"
    ELSE IF includes(l, "outro") THEN "outro"
    ELSE IF includes(l, "pre-chorus") \/ includes(l, "prechorus") THEN "pre-chorus"
    ELSE IF includes(l, "interlude") THEN "interlude"
    ELSE IF includes(l, "solo") THEN "solo"
    ELSE IF includes(l, "grid") THEN "grid"
    ELSE IF includes(l, "tab") THEN "tab"
    ELSE "unknown"

\* A plausible slip: the section is pushed whether or not it has lines.
flushSectionKeepEmpty(doc, section) ==
    [doc EXCEPT !.sections = Append(@,
        [section EXCEPT !.lines = SelectSeq(section.lines, LAMBDA l : Len(l.tokens) > 0)])]

flushSection(doc, section) ==
    LET nonEmpty == SelectSeq(section.lines, LAMBDA l : Len(l.tokens) > 0) IN
    IF Len(nonEmpty) > 0
    THEN [doc EXCEPT !.sections = Append(@, [section EXCEPT !.lines = nonEmpty])]
    ELSE doc

\* makeSection(type = "unknown", label?): a missing label is "".
makeSection(type, label) == [type |-> type, label |-> label, lines |-> <<>>]

\* The index of the first character of s at or after from that is in stops;
\* Len(s) when there is none.
RECURSIVE ScanTo(_, _, _)
ScanTo(s, from, stops) ==
    IF from >= Len(s) THEN Len(s)
    ELSE IF CharAt(s, from) \in stops THEN from
    ELSE ScanTo(s, from + 1, stops)

\* One exec of /\[([^\]]+)\]([^\[]*)/g from lastIndex: the first "[" that is
\* followed by at least one character other than "]" and then by a "]"; the
\* lyric runs to the next "[".
RECURSIVE BracketExec(_, _)
BracketExec(line, lastIndex) ==
    LET open == ScanTo(line, lastIndex, {"["})
        close == ScanTo(line, open + 1, {"]"})
        next == ScanTo(line, close + 1, {"["})
    IN  IF open >= Len(line) THEN [found |-> FALSE]
        ELSE IF close < Len(line) /\ close > open + 1
             THEN [found |-> TRUE, chord |-> Slice(line, open + 1, close),
                   lyric |-> Slice(line, close + 1, next), lastIndex |-> next]
             ELSE BracketExec(line, open + 1)

\* The while loop of parseBracketLine.
RECURSIVE BracketTokens(_, _)
BracketTokens(line, lastIndex) ==
    LET match == BracketExec(line, lastIndex) IN
    IF ~match.found THEN <<>>
    ELSE LET lyricText == match.lyric
             safe == trimEnd(lyricText)
         IN  <<ChordToken(trim(match.chord))>>
               \o (IF (trim(lyricText) # "" \/ includesChar(lyricText, " "))
                      /\ (safe # "" \/ startsWith(lyricText, " "))
                   THEN <<LyricToken(lyricText)>> ELSE <<>>)
               \o BracketTokens(line, match.lastIndex)

parseBracketLine(line) ==
    LET firstBracket == indexOf(line, "[")
        pre == Slice(line, 0, firstBracket)
    IN  [tokens |->
            (IF firstBracket > 0 /\ trim(pre) # "" THEN <<LyricToken(trimEnd(pre))>>
             ELSE <<>>)
              \o BracketTokens(line, 0)]

\* trimmed.match(/^\{([^:}]+)(?::([^}]*))?\}$/): the name runs to the first
\* ":" or "}", the value (when there is a ":") to the first "}", which must
\* end the line.
DirectiveMatch(trimmed) ==
    LET nameEnd == ScanTo(trimmed, 1, {":", "}"})
        hasValue == nameEnd < Len(trimmed) /\ CharAt(trimmed, nameEnd) = ":"
        close == IF hasValue THEN ScanTo(trimmed, nameEnd + 1, {"}"}) ELSE nameEnd
    IN  IF /\ Len(trimmed) >= 3
           /\ CharAt(trimmed, 0) = "{"
           /\ nameEnd > 1
           /\ close = Len(trimmed) - 1
        THEN [matched |-> TRUE, name |-> Slice(trimmed, 1, nameEnd),
              value |-> IF hasValue THEN Slice(trimmed, nameEnd + 1, close) ELSE ""]
        ELSE [matched |-> FALSE, name |-> "", value |-> ""]

\* A plausible slip: the first value of a field is kept.
SetMetadataFirstWins(doc, metaKey, value) ==
    IF doc[metaKey] # "" THEN doc ELSE [doc EXCEPT ![metaKey] = value]

\* doc[metaKey] = value
SetMetadata(doc, metaKey, value) == [doc EXCEPT ![metaKey] = value]

PushLine(section, tokens) == [section EXCEPT !.lines = Append(@, [tokens |-> tokens])]

CommentDirectives == {"comment", "c", "comment_italic", "ci"}

\* The lower-cased directive names that DIRECTIVE_META[key] and
\* SECTION_START[key] find although the tables do not list them: the keys
\* the object literals inherit, with the text of the value found.
INHERITED_KEYS ==
    [constructor |-> "function Object() { [native code] }",
     __proto__ |-> "[object Object]"]

\* One pass of the for loop of parseChordPro over rawLine: the document and
\* the current section after it.  For an inherited key with a value, doc
\* gets a property that is no field of the document; without a value, the
\* key opens a section whose type is the value found.
ChordProLineStep(doc, current, rawLine) ==
    LET trimmed == trim(rawLine)
        keep == [doc |-> doc, current |-> current]
        directiveMatch == DirectiveMatch(trimmed)
        key == toLowerCase(trim(directiveMatch.name))
        value == trim(directiveMatch.value)
    IN  IF trimmed = "" THEN keep
        ELSE IF startsWith(trimmed, "%") THEN keep
        ELSE IF directiveMatch.matched
        THEN IF key \in DOMAIN DIRECTIVE_META /\ value # ""
             THEN [doc |-> SetMetadata(doc, DIRECTIVE_META[key], value),
                   current |-> current]
             ELSE IF key \in DOMAIN INHERITED_KEYS /\ value # "" THEN keep
             ELSE IF key \in DOMAIN INHERITED_KEYS
             THEN [doc |-> flushSection(doc, current),
                   current |-> makeSection(INHERITED_KEYS[key], value)]
             ELSE IF key \in DOMAIN SECTION_START
             THEN [doc |-> flushSection(doc, current),
                   current |-> makeSection(SECTION_START[key], value)]
             ELSE IF key \in SECTION_END
             THEN [doc |-> flushSection(doc, current),
                   current |-> makeSection("unknown", "")]
             ELSE IF key \in CommentDirectives /\ value # ""
             THEN [doc |-> doc, current |-> PushLine(current, <<CommentToken(value)>>)]
             ELSE keep
        ELSE IF UG_SECTION_RE(trimmed)
        THEN LET label == Slice(trimmed, 1, Len(trimmed) - 1) IN
             [doc |-> flushSection(doc, current),
              current |-> makeSection(sectionTypeFromLabel(label), label)]
        ELSE IF includesChar(trimmed, "[")
        THEN LET line == parseBracketLine(trimmed) IN
             IF Len(line.tokens) > 0
             THEN [doc |-> doc, current |-> PushLine(current, line.tokens)]
             ELSE keep
        ELSE [doc |-> doc, current |-> PushLine(current, <<LyricToken(trimmed)>>)]

\* The optional quality of CHORD_TOKEN_RE: m, maj (twice), M, min, dim, aug,
\* sus, sus2, sus4, add; the digits of add\d* and of \d+ follow.
CHORD_QUALITIES == {"", "m", "maj", "M", "min", "dim", "aug", "sus", "sus2", "sus4", "add"}

RECURSIVE SkipDigits(_)
SkipDigits(s) == IF Len(s) > 0 /\ IsDigit(CharAt(s, 0)) THEN SkipDigits(Tail(s)) ELSE s

\* (?:\/[A-G][#b]?)?$
IsBassOrEnd(s) ==
    \/ s = ""
    \/ /\ Len(s) \in {2, 3}
       /\ CharAt(s, 0) = "/"
       /\ CharAt(s, 1) \in RootLetters
       /\ Len(s) = 3 => CharAt(s, 2) \in {"#", "b"}

\* CHORD_TOKEN_RE.test(token)
CHORD_TOKEN_RE(token) ==
    /\ Len(token) >= 1
    /\ CharAt(token, 0) \in RootLetters
    /\ \E skip \in {1, 2} :
          /\ skip = 2 => (Len(token) >= 2 /\ CharAt(token, 1) \in {"#", "b"})
          /\ \E q \in CHORD_QUALITIES :
                /\ startsWith(SliceFrom(token, skip), q)
                /\ IsBassOrEnd(SkipDigits(SliceFrom(token, skip + Len(q))))

\* line.trim().split(/\s+/).filter(Boolean)
RECURSIVE SplitWords(_)
SplitWords(s) ==
    LET t == trimStart(s)
        end == ScanTo(t, 0, Whitespace)
    IN  IF t = "" THEN <<>>
        ELSE <<Slice(t, 0, end)>> \o SplitWords(SliceFrom(t, end))

\* A plausible slip: any line with a chord on it.
isChordLineAnyChord(line) ==
    Len(SelectSeq(SplitWords(line), CHORD_TOKEN_RE)) >= 1

\* isChordLine of the parser: at least one chord and at least 70% chords.
isChordLine(line) ==
    LET tokens == SplitWords(line)
        chordCount == Len(SelectSeq(tokens, CHORD_TOKEN_RE))
    IN  /\ Len(tokens) >= 1
        /\ chordCount >= 1
        /\ 10 * chordCount >= 7 * Len(tokens)

\* A plausible slip: the lyric line paired with a chord line is not skipped,
\* so that it is read again as a line of its own.
OverWordsLineStepNoSkip(current, lines, i) ==
    LET trimmed == trim(lines[i + 1])
        nextLine == IF i + 2 <= Len(lines) THEN trim(lines[i + 2]) ELSE ""
        words == SplitWords(trimmed)
        chordTokens == [k \in 1..Len(words) |-> ChordToken(words[k])]
    IN  IF trimmed = "" THEN [current |-> current, i |-> i + 1]
        ELSE IF isChordLine(trimmed)
        THEN IF nextLine # "" /\ ~isChordLine(nextLine)
             THEN [current |-> PushLine(current, Append(chordTokens, LyricToken(nextLine))),
                   i |-> i + 1]
             ELSE [current |-> PushLine(current, chordTokens), i |-> i + 1]
        ELSE [current |-> PushLine(current, <<LyricToken(trimmed)>>), i |-> i + 1]

\* One pass of the while loop of parseChordsOverWords at index i of the raw
\* lines: the current section and the index after it.
OverWordsLineStep(current, lines, i) ==
    LET trimmed == trim(lines[i + 1])
        nextLine == IF i + 2 <= Len(lines) THEN trim(lines[i + 2]) ELSE ""
        words == SplitWords(trimmed)
        chordTokens == [k \in 1..Len(words) |-> ChordToken(words[k])]
    IN  IF trimmed = "" THEN [current |-> current, i |-> i + 1]
        ELSE IF isChordLine(trimmed)
        THEN IF nextLine # "" /\ ~isChordLine(nextLine)
             THEN [current |-> PushLine(current, Append(chordTokens, LyricToken(nextLine))),
                   i |-> i + 2]
             ELSE [current |-> PushLine(current, chordTokens), i |-> i + 1]
        ELSE [current |-> PushLine(current, <<LyricToken(trimmed)>>), i |-> i + 1]

\* parseChordChart has not been called.
CIdle ==
    /\ cpc = "idle"
    /\ chartText = ""
    /\ chartFormat = "chordpro"
    /\ rawLines = <<>>
    /\ lineIndex = 0
    /\ chartDoc = EmptyDoc
    /\ currentSection = makeSection("unknown", "")

\* parseChordChart(text, sourceFormat) has been called.
CStart(text, sourceFormat) ==
    /\ cpc = "start"
    /\ chartText = text
    /\ chartFormat = sourceFormat
    /\ rawLines = <<>>
    /\ lineIndex = 0
    /\ chartDoc = EmptyDoc
    /\ currentSection = makeSection("unknown", "")

\* The head of parseChordPro and of parseChordsOverWords: the empty document,
\* the first section and the raw lines.
SplitLines ==
    /\ cpc = "start"
    /\ rawLines' = SplitBy(normalizeLineEndings(chartText), "\n")
    /\ chartDoc' = [EmptyDoc EXCEPT !.sourceFormat =
                       IF chartFormat = "chords-over-words" THEN "chords-over-words"
                       ELSE "chordpro"]
    /\ currentSection' = makeSection("unknown", "")
    /\ lineIndex' = 0
    /\ cpc' = "lines"
    /\ UNCHANGED <<chartText, chartFormat, notC>>

\* One pass of the for loop of parseChordPro (also under parseUltimateGuitar).
ChordProLine ==
    /\ cpc = "lines"
    /\ chartFormat # "chords-over-words"
    /\ lineIndex < Len(rawLines)
    /\ LET step == ChordProLineStep(chartDoc, currentSection, rawLines[lineIndex + 1]) IN
       /\ chartDoc' = step.doc
       /\ currentSection' = step.current
    /\ lineIndex' = lineIndex + 1
    /\ UNCHANGED <<cpc, chartText, chartFormat, rawLines, notC>>

\* One pass of the while loop of parseChordsOverWords.
OverWordsLine ==
    /\ cpc = "lines"
    /\ chartFormat = "chords-over-words"
    /\ lineIndex < Len(rawLines)
    /\ LET step == OverWordsLineStep(currentSection, rawLines, lineIndex) IN
       /\ currentSection' = step.current
       /\ lineIndex' = step.i
    /\ UNCHANGED <<cpc, chartText, chartFormat, rawLines, chartDoc, notC>>

\* The final flushSection; parseUltimateGuitar then sets its sourceFormat.
FinishParse ==
    /\ cpc = "lines"
    /\ lineIndex >= Len(rawLines)
    /\ chartDoc' = [flushSection(chartDoc, currentSection) EXCEPT !.sourceFormat =
                       IF chartFormat = "ultimateguitar" THEN "ultimateguitar" ELSE @]
    /\ cpc' = "done"
    /\ UNCHANGED <<chartText, chartFormat, rawLines, lineIndex, currentSection, notC>>

CNext ==
    \/ SplitLines
    \/ ChordProLine
    \/ OverWordsLine
    \/ FinishParse

\* The chartProText memo of the chart view: the loaded document serialized
\* with the transpose steps of a fresh load (0).
ExportChart ==
    /\ cpc = "done"
    /\ tpc = "idle"
    /\ tdoc' = chartDoc
    /\ tsteps' = 0
    /\ chartProText' = serializeChordProFromDocument(chartDoc, 0)
    /\ tpc' = "serialized"
    /\ UNCHANGED <<chord, stepsA, stepsB, once, twice, cvars, xvars, svars, ivars, hvars, avars, zvars>>

\* The exported text is loaded again as a ChordPro file:
\* parseChordChart(text, "chordpro").
ReloadChart ==
    /\ cpc = "done"
    /\ tpc = "serialized"
    /\ cpc' = "start"
    /\ chartText' = chartProText
    /\ chartFormat' = "chordpro"
    /\ rawLines' = <<>>
    /\ lineIndex' = 0
    /\ chartDoc' = EmptyDoc
    /\ currentSection' = makeSection("unknown", "")
    /\ tpc' = "reloaded"
    /\ UNCHANGED <<chord, stepsA, stepsB, once, twice, tdoc, tsteps, chartProText,
                   xvars, svars, ivars, hvars, avars, zvars>>

ENext ==
    \/ CNext
    \/ ExportChart
    \/ ReloadChart

\* sniffFormatFromBytes has not been called.
SIdle ==
    /\ spc = "idle"
    /\ sniffBytes = <<>>
    /\ sniffFilename = ""
    /\ sniffText = ""
    /\ sniffed = ""

-----------------------------------------------------------------------------
(* sniffFormatFromBytes (sniffFormat.ts) *)

ZIP_MAGIC == <<80, 75, 3, 4>>

hasZipMagic(bytes) ==
    /\ Len(bytes) >= 4
    /\ \A i \in 1..4 : bytes[i] = ZIP_MAGIC[i]

fileExtension(filename) ==
    LET dot == lastIndexOf(filename, ".") IN
    IF dot >= 0 THEN toLowerCase(SliceFrom(filename, dot + 1)) ELSE ""

\* The characters of the bytes 32..95 and of the bytes 97..126.
AsciiTo95 ==
    " !\"#$%&'()*+,-./0123456789:;<=>?@ABCDEFGHIJKLMNOPQRSTUVWXYZ[\\]^_"

AsciiFrom97 == "abcdefghijklmnopqrstuvwxyz{|}~"

\* The character a single byte decodes to.  The other bytes (control
\* characters, the grave accent, which a TLA+ string cannot hold, and bytes
\* from 128 on) do not occur in the texts of the model; they stand as "~",
\* which no rule of the classifier tells from them.
DecodeByte(b) ==
    IF b = 10 THEN "\n"
    ELSE IF b = 13 THEN "\r"
    ELSE IF b = 9 THEN "\t"
    ELSE IF b >= 32 /\ b <= 95 THEN CharAt(AsciiTo95, b - 32)
    ELSE IF b >= 97 /\ b <= 126 THEN CharAt(AsciiFrom97, b - 97)
    ELSE "~"

RECURSIVE DecodeBytes(_)
DecodeBytes(bytes) ==
    IF Len(bytes) = 0 THEN "" ELSE DecodeByte(Head(bytes)) \o DecodeBytes(Tail(bytes))

UTF8_BOM == <<239, 187, 191>>

HeadLimit == 2048

\* new TextDecoder("utf-8", {fatal: false}).decode(bytes.slice(0, 2048)):
\* a leading byte order mark is dropped.
DecodeHead(bytes) ==
    LET sliced == SubSeq(bytes, 1, Min(Len(bytes), HeadLimit)) IN
    IF Len(sliced) >= 3 /\ SubSeq(sliced, 1, 3) = UTF8_BOM
    THEN DecodeBytes(SubSeq(sliced, 4, Len(sliced)))
    ELSE DecodeBytes(sliced)

CHORDPRO_DIRECTIVE_NAMES ==
    {"title", "t", "artist", "a", "subtitle", "st", "key", "capo", "tempo", "time",
     "start_of_chorus", "soc", "start_of_verse", "sov", "start_of_grid", "sog",
     "start_of_bridge", "sob", "comment", "c"}

\* CHORDPRO_DIRECTIVE_RE matched at the "{" of index i.
DirectiveAt(text, i) ==
    /\ CharAt(text, i) = "{"
    /\ LET rest == trimStart(SliceFrom(text, i + 1)) IN
       \E name \in CHORDPRO_DIRECTIVE_NAMES :
          /\ startsWithAnyCase(rest, name)
          /\ LET after == trimStart(SliceFrom(rest, Len(name))) IN
             Len(after) > 0 /\ CharAt(after, 0) \in {"}", ":"}

\* CHORDPRO_DIRECTIVE_RE.test(text)
CHORDPRO_DIRECTIVE_RE(text) == \E i \in 0..(Len(text) - 1) : DirectiveAt(text, i)

\* UG_SECTION_RE of the sniffer (flags i and m): at the start of a line, "[",
\* a keyword, characters other than "]", and "]".
SniffSectionRE(text) ==
    \E i \in 0..(Len(text) - 1) :
        /\ i = 0 \/ CharAt(text, i - 1) \in {"\n", "\r"}
        /\ CharAt(text, i) = "["
        /\ \E k \in UG_SECTION_KEYWORDS :
              /\ startsWithAnyCase(SliceFrom(text, i + 1), k)
              /\ includesChar(SliceFrom(text, i + 1 + Len(k)), "]")

\* BRACKET_CHORD_RE.test(text): "[", a root letter, an optional accidental,
\* at most 10 characters other than "]" and line feed, and "]".
BRACKET_CHORD_RE(text) ==
    \E i \in 0..(Len(text) - 3) :
        /\ CharAt(text, i) = "["
        /\ CharAt(text, i + 1) \in RootLetters
        /\ LET close == ScanTo(text, i + 2, {"]", "\n"})
               between == close - (i + 2)
           IN  /\ close < Len(text)
               /\ CharAt(text, close) = "]"
               /\ \/ between <= 10
                  \/ between = 11 /\ CharAt(text, i + 2) \in {"#", "b"}

\* isChordLine of the sniffer: at least two chords and at least 70% chords.
SniffIsChordLine(line) ==
    LET tokens == SplitWords(line)
        matches == Len(SelectSeq(tokens, CHORD_TOKEN_RE))
    IN  /\ Len(tokens) > 0
        /\ matches >= 2
        /\ 10 * matches >= 7 * Len(tokens)

KnownChartExtensions == {"cho", "chopro", "chord", "crd", "pro"}

\* A plausible slip: the section-header rule tried before the directive rule.
ClassifyHeadHeaderFirst(text, ext) ==
    LET lines == SplitBy(text, "\n")
        nonBlank == SelectSeq(lines, LAMBDA l : trim(l) # "")
        chordLines == Len(SelectSeq(nonBlank, SniffIsChordLine))
        textLines == Len(nonBlank) - chordLines
    IN  IF includes(text, "<score-partwise") \/ includes(text, "<score-timewise")
        THEN "musicxml"
        ELSE IF ext \in {"xml", "musicxml"} /\ startsWith(trimStart(text), "<?xml")
        THEN "musicxml"
        ELSE IF SniffSectionRE(text) THEN "ultimateguitar"
        ELSE IF CHORDPRO_DIRECTIVE_RE(text) THEN "chordpro"
        ELSE IF BRACKET_CHORD_RE(text) THEN "chordpro"
        ELSE IF chordLines >= 2 /\ 4 * chordLines >= textLines THEN "chords-over-words"
        ELSE IF ext \in KnownChartExtensions THEN "chordpro"
        ELSE "unknown"

\* Rules 2 to 7 of sniffFormatFromBytes on the decoded head.
ClassifyHead(text, ext) ==
    LET lines == SplitBy(text, "\n")
        nonBlank == SelectSeq(lines, LAMBDA l : trim(l) # "")
        chordLines == Len(SelectSeq(nonBlank, SniffIsChordLine))
        textLines == Len(nonBlank) - chordLines
    IN  IF includes(text, "<score-partwise") \/ includes(text, "<score-timewise")
        THEN "musicxml"
        ELSE IF ext \in {"xml", "musicxml"} /\ startsWith(trimStart(text), "<?xml")
        THEN "musicxml"
        ELSE IF CHORDPRO_DIRECTIVE_RE(text) THEN "chordpro"
        ELSE IF SniffSectionRE(text) THEN "ultimateguitar"
        ELSE IF BRACKET_CHORD_RE(text) THEN "chordpro"
        ELSE IF chordLines >= 2 /\ 4 * chordLines >= textLines THEN "chords-over-words"
        ELSE IF ext \in KnownChartExtensions THEN "chordpro"
        ELSE "unknown"

\* sniffFormatFromBytes(bytes, filename) has been called.
SStart(bytes, filename) ==
    /\ spc = "start"
    /\ sniffBytes = bytes
    /\ sniffFilename = filename
    /\ sniffText = ""
    /\ sniffed = ""

\* Rule 1, and the decoding of the head when it does not apply.
SniffMagic ==
    /\ spc = "start"
    /\ IF hasZipMagic(sniffBytes)
       THEN /\ sniffed' = "mxl"
            /\ spc' = "done"
            /\ UNCHANGED sniffText
       ELSE /\ sniffText' = DecodeHead(sniffBytes)
            /\ spc' = "decoded"
            /\ UNCHANGED sniffed
    /\ UNCHANGED <<sniffBytes, sniffFilename, notS>>

\* Rules 2 to 7 and the fallback.
SniffText ==
    /\ spc = "decoded"
    /\ sniffed' = ClassifyHead(sniffText, fileExtension(sniffFilename))
    /\ spc' = "done"
    /\ UNCHANGED <<sniffBytes, sniffFilename, sniffText, notS>>

SNext ==
    \/ SniffMagic
    \/ SniffText

-----------------------------------------------------------------------------
(* Scores of one measure for the inline lyrics renderer *)

MaxSlots == 4

SlotRoots == <<"C", "D", "E", "G", "A", "B">>

SlotSyllables == <<"p", "q", "r", "s", "t", "u">>

\* How a slot carries its harmony: none, a <harmony> at the cursor, or a
\* <harmony> with an <offset> child.
HarmonyShapes == {"none", "cursor", "offset"}

\* One slot of a measure: an optional <harmony>, then a <note> of 120
\* divisions with or without a <lyric>.
SlotChildren(k, shape) ==
    (IF shape.harmony = "none" THEN <<>>
     ELSE <<HarmonyEl(SlotRoots[k], "", "major", shape.harmony = "offset", "180")>>)
      \o <<Note("120", IF shape.lyric THEN <<Lyric("1", SlotSyllables[k], "single")>>
                       ELSE <<>>)>>

RECURSIVE MeasureOfSlots(_, _)
MeasureOfSlots(shapes, k) ==
    IF k > Len(shapes) THEN <<>>
    ELSE SlotChildren(k, shapes[k]) \o MeasureOfSlots(shapes, k + 1)

ScoreOf(partMeasures) ==
    [wellFormed |-> TRUE, workTitle |-> "", movementTitle |-> "", composer |-> "",
     parts |-> <<[id |-> "P1", measures |-> partMeasures]>>]

LInit ==
    \E n \in 1..MaxSlots :
      \E shapes \in [1..n -> [harmony : HarmonyShapes, lyric : BOOLEAN]] :
        \E style \in {"separate", "combined"} :
          XStart(ScoreOf(<<MeasureOfSlots(shapes, 1)>>),
                 [getDefaultConvertOptions EXCEPT !.chordBracketStyle = style])

-----------------------------------------------------------------------------
(* Claims C3 and C4: chords and syllables in the inline rendering *)

\* The characters of the bracket groups that end right before position i.
RECURSIVE BracketCharsBefore(_, _, _)
BracketCharsBefore(text, i, inside) ==
    IF i <= 0 THEN {}
    ELSE LET ch == CharAt(text, i - 1) IN
         IF inside
         THEN IF ch = "[" THEN BracketCharsBefore(text, i - 1, FALSE)
              ELSE (IF ch = " " THEN {} ELSE {ch}) \cup BracketCharsBefore(text, i - 1, TRUE)
         ELSE IF ch = "]" THEN BracketCharsBefore(text, i - 1, TRUE)
              ELSE {}

\* The chords printed in front of a syllable of the output text; {} for a
\* syllable that is not in the text.
ChordsBefore(text, syllable) ==
    IF includesChar(text, syllable)
    THEN BracketCharsBefore(text, indexOf(text, syllable), FALSE)
    ELSE {}

OffsetsOf(events) == [i \in 1..Len(events) |-> events[i].offsetDivisions]

\* The measure of a finished one-measure conversion, and its first verse.
TheMeasure == measureList[1]

TheLyrics == LyricsOfVerse(TheMeasure, "1")

LyricsRendered ==
    /\ xpc = "done"
    /\ Len(measureList) = 1
    /\ Len(TheLyrics) > 0

\* Harmonies at 0 and 240, syllables at 0, 120, 240 and 360.
CarryScenario ==
    /\ LyricsRendered
    /\ OffsetsOf(TheMeasure.harmonies) = <<0, 240>>
    /\ OffsetsOf(TheLyrics) = <<0, 120, 240, 360>>

HarmoniesNamed(chords) ==
    {i \in 1..Len(TheMeasure.harmonies) : TheMeasure.harmonies[i].chordText \in chords}

\* C4 as stated: every chord printed in front of a syllable comes from a
\* harmony whose offset is at or before the syllable's offset.
C4_ChordsAtOrBeforeSyllable ==
    LyricsRendered =>
        \A l \in 1..Len(TheLyrics) :
            \A h \in HarmoniesNamed(ChordsBefore(chordPro, TheLyrics[l].text)) :
                TheMeasure.harmonies[h].offsetDivisions <= TheLyrics[l].offsetDivisions

\* C4 as amended: every chord printed in front of a syllable other than the
\* measure's last comes from a harmony at or before the syllable's offset;
\* the last syllable also carries every harmony later than itself.
C4_ChordsAtOrBeforeUnlessLast ==
    LyricsRendered =>
        /\ \A l \in 1..(Len(TheLyrics) - 1) :
              \A h \in HarmoniesNamed(ChordsBefore(chordPro, TheLyrics[l].text)) :
                  TheMeasure.harmonies[h].offsetDivisions <= TheLyrics[l].offsetDivisions
        /\ \A h \in 1..Len(TheMeasure.harmonies) :
              TheMeasure.harmonies[h].offsetDivisions
                  > TheLyrics[Len(TheLyrics)].offsetDivisions
              => TheMeasure.harmonies[h].chordText
                    \in ChordsBefore(chordPro, TheLyrics[Len(TheLyrics)].text)

\* A harmony between two syllables and one later than the last syllable.
C4_Witness ==
    /\ LyricsRendered
    /\ OffsetsOf(TheLyrics) = <<0, 240>>
    /\ OffsetsOf(TheMeasure.harmonies) = <<180, 360>>
    /\ chordPro = "| p [D][G]r |"

-----------------------------------------------------------------------------
(* Scores with repeat barlines *)

MaxMeasures == 4

\* What a measure's barlines carry: nothing, a forward repeat, a backward
\* repeat, both, or a first ending.
BarlineShapes == {"none", "start", "end", "both", "ending"}

MeasureWithBarlines(shape) ==
    (IF shape \in {"start", "both"} THEN <<Barline("forward", "")>> ELSE <<>>)
      \o (IF shape = "ending" THEN <<Barline("", "1")>> ELSE <<>>)
      \o <<Note("480", <<>>)>>
      \o (IF shape \in {"end", "both"} THEN <<Barline("backward", "")>> ELSE <<>>)

RInit ==
    \E n \in 1..MaxMeasures :
      \E shapes \in [1..n -> BarlineShapes] :
        \E strategy \in {"none", "simple-unroll"}, annotate \in BOOLEAN :
          XStart(ScoreOf([k \in 1..n |-> MeasureWithBarlines(shapes[k])]),
                 [getDefaultConvertOptions EXCEPT !.repeatStrategy = strategy,
                                                  !.annotateUnexpandedRepeats = annotate])

-----------------------------------------------------------------------------
(* Claim C5: simple-unroll *)

OrderResolved == xpc \in {"render", "done"}

NoEndings == \A i \in 1..Len(measureList) : Len(measureList[i].endings) = 0

\* The measures (0-based) flagged repeat-start, and those flagged repeat-end.
StartFlagged == {i \in 0..(Len(measureList) - 1) : measureList[i + 1].repeatStart}

EndFlagged == {i \in 0..(Len(measureList) - 1) : measureList[i + 1].repeatEnd}

Least(S) == CHOOSE x \in S : \A y \in S : x <= y

FirstStart == Least(StartFlagged)

LaterEnds == {j \in EndFlagged : j > FirstStart}

HasRepeatPair == StartFlagged # {} /\ LaterEnds # {}

\* position k (1-based) of the base order 0..n-1 with start..end played twice
UnrolledAt(k, start, end) ==
    IF k <= end + 1 THEN k - 1
    ELSE IF k <= end + 1 + (end - start + 1) THEN start + (k - (end + 2))
    ELSE k - 1 - (end - start + 1)

\* C5: with simple-unroll and no ending markers the measure order is the
\* base order with the closed range from the first repeat-start measure to
\* the first later repeat-end measure played twice in a row, n + (end -
\* start + 1) entries in all; without such a pair it is the base order.
C5_SimpleUnrollOnce ==
    (OrderResolved /\ options.repeatStrategy = "simple-unroll" /\ NoEndings) =>
        LET n == Len(measureList) IN
        IF HasRepeatPair
        THEN LET start == FirstStart
                 end == Least(LaterEnds)
             IN  /\ Len(measureOrder) = n + (end - start + 1)
                 /\ \A k \in 1..Len(measureOrder) :
                       measureOrder[k] = UnrolledAt(k, start, end)
        ELSE measureOrder = [k \in 1..n |-> k - 1]

\* 4 measures, repeat start at 0 and repeat end at 2, and a measure that
\* carries both flags after a start.
C5_Witness ==
    /\ xpc = "done"
    /\ options.repeatStrategy = "simple-unroll"
    /\ Len(measureList) = 4
    /\ StartFlagged = {0}
    /\ EndFlagged = {2}
    /\ measureOrder = <<0, 1, 2, 0, 1, 2, 3>>

-----------------------------------------------------------------------------
(* Scores for the grid renderer *)

MaxHarmonies == 2

GridDurations == {"0", "22", "960"}

GridOffsets == {"0", "15", "480", "1200"}

GridSlotChoices == {0, 4, 22}

\* A measure with a time signature or none, harmonies that carry <offset>
\* children, and one note.
GridMeasure(beats, offsets, duration) ==
    (IF beats = "" THEN <<>> ELSE <<Attributes("", "", "", beats, "4")>>)
      \o [k \in 1..Len(offsets) |-> HarmonyEl(SlotRoots[k], "", "major", TRUE, offsets[k])]
      \o <<Note(duration, <<>>)>>

GInit ==
    \E h \in 0..MaxHarmonies :
      \E offsets \in [1..h -> GridOffsets] :
        \E duration \in GridDurations, beats \in {"", "3"}, slots \in GridSlotChoices :
          \E second \in BOOLEAN :
            XStart(ScoreOf(<<GridMeasure(beats, offsets, duration)>>
                             \o (IF second THEN <<GridMeasure("", <<"0">>, "960")>>
                                 ELSE <<>>)),
                   [getDefaultConvertOptions EXCEPT !.gridSlotsPerMeasure = slots])

-----------------------------------------------------------------------------
(* Claim C8: grid slots *)

GridRendered ==
    /\ xpc = "done"
    /\ diagnostics.formatModeResolved = "grid-only"
    /\ Len(measureList) > 0

\* N, the slots per measure in force.
SlotsInForce == resolveGridSlotsPerMeasure(options, metadata.time)

\* The line of bars of the output text, cut at the bar lines.
BarsOfText(text) ==
    LET lines == SplitBy(text, "\n")
        barLines == SelectSeq(lines, LAMBDA l : Len(l) > 0 /\ CharAt(l, 0) = "|")
    IN  SplitBy(barLines[1], "|")

\* The slot cells printed for measure i (1-based) of the output text.
CellsOfMeasure(text, i) == SplitBy(trim(BarsOfText(text)[i + 1]), " ")

\* min(N-1, max(0, floor(o*N/d)))
ClaimedSlot(o, d, n) == Min(n - 1, Max(0, (o * n) \div d))

\* C8: in grid-only rendering every measure yields exactly N slot cells, and
\* in a measure of duration d > 0 the cell of slot min(N-1, max(0,
\* floor(o*N/d))) shows the chord of the first harmony at an offset o that
\* maps there; the cells no harmony maps to show ".".
C8_GridSlotOfHarmony ==
    GridRendered =>
        \A i \in 1..Len(measureList) :
            LET cells == CellsOfMeasure(chordPro, i)
                d == measureList[i].durationDivisions
                hs == measureList[i].harmonies
                claimed(k) == {h \in 1..Len(hs) :
                                  ClaimedSlot(hs[h].offsetDivisions, d, SlotsInForce) = k}
            IN  /\ Len(cells) = SlotsInForce
                /\ d > 0 =>
                     \A k \in 0..(SlotsInForce - 1) :
                         cells[k + 1] = IF claimed(k) = {} THEN "."
                                        ELSE "[" \o hs[Least(claimed(k))].chordText \o "]"

-----------------------------------------------------------------------------
(* Whole conversions: documents of every kind under every option *)

IllFormedXml ==
    [wellFormed |-> FALSE, workTitle |-> "", movementTitle |-> "", composer |-> "",
     parts |-> <<>>]

NoParts ==
    [wellFormed |-> TRUE, workTitle |-> "", movementTitle |-> "", composer |-> "",
     parts |-> <<>>]

SongMeasure ==
    <<Attributes("1", "1", "major", "4", "4"), HarmonyEl("G", "", "major", FALSE, ""),
      Note("4", <<Lyric("1", "la", "single")>>), Barline("backward", "")>>

ConvertDocuments ==
    {IllFormedXml, NoParts,
     ScoreOf(<<>>),
     ScoreOf(<<<<>>>>),
     ScoreOf(<<<<Note("4", <<>>)>>, <<Note("4", <<>>)>>>>),
     ScoreOf(<<<<HarmonyEl("C", "", "minor", FALSE, ""), Note("4", <<>>)>>>>),
     ScoreOf(<<<<Note("4", <<Lyric("1", "la", "single")>>)>>>>),
     ScoreOf(<<<<Barline("", "1")>>,
               <<Note("4", <<Lyric("constructor", "la", "single")>>)>>>>),
     [ScoreOf(<<SongMeasure>>) EXCEPT !.workTitle = "Song"]}

ConvertOptionSets ==
    {[getDefaultConvertOptions EXCEPT
         !.formatMode = f, !.barlineStyle = b, !.wrapPolicy = w, !.metadataPolicy = m,
         !.keyPolicy = k, !.timePolicy = t, !.repeatStrategy = r] :
       f \in {"auto", "lyrics-inline", "grid-only"}, b \in {"pipes", "none"},
       w \in {"bars-per-line", "no-wrap"}, m \in {"emit", "omit"},
       k \in {"emit-if-known", "omit"}, t \in {"emit-if-known", "omit"},
       r \in {"none", "simple-unroll"}}

CInit == \E xml \in ConvertDocuments, opts \in ConvertOptionSets : XStart(xml, opts)

-----------------------------------------------------------------------------
(* Claim C10: the output text is never empty *)

\* C10: convertMusicXmlToChordPro returns a chordPro string of length
\* greater than zero for every input document and every combination of
\* options.
C10_OutputNeverEmpty == xpc = "done" => Len(chordPro) > 0

-----------------------------------------------------------------------------
(* Claim C11: the error field *)

\* C11: the error field of the result is set if and only if the XML text
\* fails to parse, and then the text is the degraded output starting with
\* {title: Untitled}; no later step sets the error field.
C11_ErrorOnlyOnParseFailure ==
    xpc = "done" =>
        /\ error # "" <=> ~xmlDoc.wellFormed
        /\ error # "" => startsWith(chordPro, "{title: Untitled}")

-----------------------------------------------------------------------------
(* Claim C14: the note about repeats that are not expanded *)

Converted == xpc = "done" /\ error = ""

\* Some measure of the score carries a forward or backward repeat.
ScoreHasRepeatMarkers ==
    \E i \in 1..Len(xmlDoc.parts[1].measures) :
        \E k \in 1..Len(xmlDoc.parts[1].measures[i]) :
            /\ xmlDoc.parts[1].measures[i][k].tag = "barline"
            /\ xmlDoc.parts[1].measures[i][k].repeat \in {"forward", "backward"}

OrderIsBaseOrder == measureOrder = [k \in 1..Len(xmlDoc.parts[1].measures) |-> k - 1]

WarnedUnexpanded ==
    \E k \in 1..Len(warnings) : warnings[k] = "repeats present but not expanded"

TextLines == SplitBy(chordPro, "\n")

NotedUnexpanded ==
    \E k \in 1..Len(TextLines) :
        TextLines[k] = "% Repeats in the original score are not expanded."

-----------------------------------------------------------------------------
(* Scores with endings *)

\* A measure with a repeat start, a repeat end, an ending numbered 1, an
\* ending numbered "1, 2", or an ending whose number is blank (the form
\* MusicXML has for an ending of unknown type).
EndingShapes == {"start", "end", "ending1", "ending12", "blank"}

MeasureWithEnding(shape) ==
    (IF shape = "start" THEN <<Barline("forward", "")>> ELSE <<>>)
      \o (IF shape = "ending1" THEN <<Barline("", "1")>> ELSE <<>>)
      \o (IF shape = "ending12" THEN <<Barline("", "1, 2")>> ELSE <<>>)
      \o (IF shape = "blank" THEN <<Barline("", " ")>> ELSE <<>>)
      \o <<Note("480", <<>>)>>
      \o (IF shape = "end" THEN <<Barline("backward", "")>> ELSE <<>>)

NInit ==
    \E n \in 1..MaxMeasures :
      \E shapes \in [1..n -> EndingShapes] :
        \E strategy \in {"none", "simple-unroll"} :
          XStart(ScoreOf([k \in 1..n |-> MeasureWithEnding(shapes[k])]),
                 [getDefaultConvertOptions EXCEPT !.repeatStrategy = strategy])

-----------------------------------------------------------------------------
(* Claim C15: endings switch the unroll off *)

\* Some measure of the lyric part has a barline with an <ending> element.
ScoreHasEnding ==
    \E i \in 1..Len(xmlDoc.parts[1].measures) :
        \E k \in 1..Len(xmlDoc.parts[1].measures[i]) :
            /\ xmlDoc.parts[1].measures[i][k].tag = "barline"
            /\ xmlDoc.parts[1].measures[i][k].ending # ""

WarnedEndings == \E k \in 1..Len(warnings) : warnings[k] = "unsupported endings"

\* C15: if any measure of the lyric part carries an ending marker and the
\* repeat strategy is simple-unroll, the measure order is the base order
\* and the warnings hold an unsupported-endings warning.
C15_EndingsKeepBaseOrder ==
    (OrderResolved /\ ScoreHasEnding /\ options.repeatStrategy = "simple-unroll") =>
        OrderIsBaseOrder /\ WarnedEndings

-----------------------------------------------------------------------------
(* Scores with key signatures *)

\* The circle of fifths: the major key of each count of fifths and its
\* relative minor, 9 semitones up, in the spelling of the converter.
CircleOfFifths ==
    {[fifths |-> "-7", major |-> "Cb", minor |-> "G#m"],
     [fifths |-> "-6", major |-> "Gb", minor |-> "Ebm"],
     [fifths |-> "-5", major |-> "Db", minor |-> "Bbm"],
     [fifths |-> "-4", major |-> "Ab", minor |-> "Fm"],
     [fifths |-> "-3", major |-> "Eb", minor |-> "Cm"],
     [fifths |-> "-2", major |-> "Bb", minor |-> "Gm"],
     [fifths |-> "-1", major |-> "F", minor |-> "Dm"],
     [fifths |-> "0", major |-> "C", minor |-> "Am"],
     [fifths |-> "1", major |-> "G", minor |-> "Em"],
     [fifths |-> "2", major |-> "D", minor |-> "Bm"],
     [fifths |-> "3", major |-> "A", minor |-> "F#m"],
     [fifths |-> "4", major |-> "E", minor |-> "C#m"],
     [fifths |-> "5", major |-> "B", minor |-> "G#m"],
     [fifths |-> "6", major |-> "F#", minor |-> "Ebm"],
     [fifths |-> "7", major |-> "C#", minor |-> "Bbm"]}

FifthsTexts == {e.fifths : e \in CircleOfFifths} \cup {"-8", "8"}

ModeTexts == {"", "major", "minor"}

\* The first <attributes> of the score: with the key, or with the divisions
\* only and the key in a second <attributes> of the same measure.
KeyPlacements == {"first", "second"}

KeyedMeasure(fifths, mode, placement) ==
    (IF placement = "first" THEN <<Attributes("1", fifths, mode, "4", "4")>>
     ELSE <<Attributes("1", "", "", "", ""), Attributes("", fifths, mode, "4", "4")>>)
      \o <<Note("4", <<>>)>>

KInit ==
    \E fifths \in FifthsTexts, mode \in ModeTexts, placement \in KeyPlacements :
        XStart(ScoreOf(<<KeyedMeasure(fifths, mode, placement)>>), getDefaultConvertOptions)

-----------------------------------------------------------------------------
(* Claim C17: the key of the score *)

MetadataRead == xpc \in {"measures", "render", "done"}

\* The first <attributes> in document order that has a key.
FirstKeyed ==
    LET children == xmlDoc.parts[1].measures[1]
        keyed == {i \in 1..Len(children) :
                     children[i].tag = "attributes" /\ children[i].fifths # ""}
    IN  children[CHOOSE i \in keyed : \A j \in keyed : i <= j]

\* C17: the key comes from the first key/fifths element in document order,
\* wherever the <attributes> that carries it stands: fifths in -7..7 gives
\* the major key of the circle of fifths, or its relative minor when the
\* mode is minor; fifths outside -7..7 gives no key.
C17_KeyFromFirstFifths ==
    MetadataRead =>
        metadata.key =
            IF \E e \in CircleOfFifths : e.fifths = FirstKeyed.fifths
            THEN LET e == CHOOSE c \in CircleOfFifths : c.fifths = FirstKeyed.fifths
                 IN  IF FirstKeyed.mode = "minor" THEN e.minor ELSE e.major
            ELSE ""

-----------------------------------------------------------------------------
(* Scores of several parts *)

MaxParts == 3

Sung(text) == Note("4", <<Lyric("1", text, "single")>>)

\* The measures a part can have, with the syllables of each measure: no
\* lyric at all, one, two, and two again in three measures.
PartPool ==
    {[measures |-> <<<<HarmonyEl("C", "", "major", FALSE, ""), Note("4", <<>>)>>>>,
      syllables |-> <<<<>>>>],
     [measures |-> <<<<Sung("a")>>, <<Note("4", <<>>)>>>>,
      syllables |-> <<<<"a">>, <<>>>>],
     [measures |-> <<<<Sung("b"), Sung("c")>>>>,
      syllables |-> <<<<"b", "c">>>>],
     [measures |-> <<<<Sung("d")>>, <<>>, <<Sung("e")>>>>,
      syllables |-> <<<<"d">>, <<>>, <<"e">>>>]}

PartIds == {"", "P1", "P2"}

ScoreOfParts(chosen) ==
    [wellFormed |-> TRUE, workTitle |-> "", movementTitle |-> "", composer |-> "",
     parts |-> [i \in 1..Len(chosen) |->
                   [id |-> chosen[i].id, measures |-> chosen[i].part.measures]]]

MInit ==
    \E n \in 1..MaxParts :
      \E chosen \in [1..n -> [id : PartIds, part : PartPool]] :
        XStart(ScoreOfParts(chosen), getDefaultConvertOptions)

-----------------------------------------------------------------------------
(* Claim C13: the part the timeline is built from *)

\* The number of syllables written into a part of the pool.
SyllableCount(measures) ==
    LET entry == CHOOSE e \in PartPool : e.measures = measures IN
    SumOver([i \in 1..Len(entry.syllables) |-> Len(entry.syllables[i])],
            Len(entry.syllables))

\* The first part with the greatest number of syllables.
RichestPart ==
    CHOOSE i \in 1..Len(xmlDoc.parts) :
        /\ \A j \in 1..Len(xmlDoc.parts) :
              SyllableCount(xmlDoc.parts[j].measures) <= SyllableCount(xmlDoc.parts[i].measures)
        /\ \A j \in 1..(i - 1) :
              SyllableCount(xmlDoc.parts[j].measures) < SyllableCount(xmlDoc.parts[i].measures)

SyllablesOfTimeline ==
    [i \in 1..Len(measureList) |->
        IF "1" \in DOMAIN measureList[i].lyricsByVerse
        THEN [k \in 1..Len(measureList[i].lyricsByVerse["1"]) |->
                 measureList[i].lyricsByVerse["1"][k].text]
        ELSE <<>>]

TimelineBuilt == xpc \in {"render", "done"} /\ error = "" /\ Len(xmlDoc.parts) > 0

\* C13: the timeline is built from the measures of the part with the
\* strictly greatest number of lyric-text elements, the first-seen part
\* winning ties, also when part ids are missing or shared.
C13_TimelineFromRichestPart ==
    TimelineBuilt =>
        SyllablesOfTimeline =
            (CHOOSE e \in PartPool : e.measures = xmlDoc.parts[RichestPart].measures).syllables

-----------------------------------------------------------------------------
(* Claim C18: the resolved format mode *)

\* Some note of the score carries a lyric with a text.
ScoreHasLyricEvent ==
    \E p \in 1..Len(xmlDoc.parts) :
      \E i \in 1..Len(xmlDoc.parts[p].measures) :
        \E k \in 1..Len(xmlDoc.parts[p].measures[i]) :
          /\ xmlDoc.parts[p].measures[i][k].tag = "note"
          /\ \E j \in 1..Len(xmlDoc.parts[p].measures[i][k].lyrics) :
                xmlDoc.parts[p].measures[i][k].lyrics[j].text # ""

\* The body was written by renderGrid.
GridBody == \E k \in 1..Len(TextLines) : TextLines[k] = "{start_of_grid}"

\* C18: under format mode auto the resolved mode is lyrics-inline exactly
\* when some verse has a lyric event, else grid-only; an explicit mode is
\* the resolved mode whatever the lyrics; the resolved mode in the
\* diagnostics is never auto and names the renderer that wrote the body.
C18_ResolvedFormatMode ==
    /\ xpc = "done" => diagnostics.formatModeResolved # "auto"
    /\ Converted =>
          /\ options.formatMode = "auto" =>
                diagnostics.formatModeResolved =
                    IF ScoreHasLyricEvent THEN "lyrics-inline" ELSE "grid-only"
          /\ options.formatMode # "auto" =>
                diagnostics.formatModeResolved = options.formatMode
          /\ GridBody <=> diagnostics.formatModeResolved = "grid-only"
          /\ ~GridBody <=> diagnostics.formatModeResolved = "lyrics-inline"

\* An explicit grid-only mode on a score with lyrics, rendered as a grid.
C18_Witness ==
    /\ Converted
    /\ options.formatMode = "grid-only"
    /\ ScoreHasLyricEvent
    /\ diagnostics.formatModeResolved = "grid-only"
    /\ GridBody

-----------------------------------------------------------------------------
(* Songs of several bars *)

BarRoots == <<"C", "D", "E", "G", "A", "B">>

BarSyllables == <<"Hey", "q", "r", "s", "t", "u">>

\* Bar k: one harmony and one sung note, both at offset 0.
SungBar(k) ==
    (IF k = 1 THEN <<Attributes("480", "", "", "", "")>> ELSE <<>>)
      \o <<HarmonyEl(BarRoots[k], "", "major", FALSE, ""),
           Note("480", <<Lyric("1", BarSyllables[k], "single")>>)>>

BarsPerLineValues == {-2, -1, 0, 1, 2, 3}

BInit ==
    \E n \in 1..(MaxMeasures + 1), barsPerLine \in BarsPerLineValues,
       wrap \in {"bars-per-line", "no-wrap"}, style \in {"pipes", "none"} :
        XStart(ScoreOf([k \in 1..n |-> SungBar(k)]),
               [getDefaultConvertOptions EXCEPT !.barsPerLine = barsPerLine,
                                                !.wrapPolicy = wrap,
                                                !.barlineStyle = style])

-----------------------------------------------------------------------------
(* Claim C19: bars wrapped into lines *)

BarCount == Len(xmlDoc.parts[1].measures)

\* The number of bars on a full line: all of them under no-wrap, else
\* barsPerLine, with 4 standing in for 0 and 1 for a negative value.
BarsOnALine ==
    IF options.wrapPolicy = "no-wrap" THEN BarCount
    ELSE IF options.barsPerLine > 0 THEN options.barsPerLine
    ELSE IF options.barsPerLine = 0 THEN 4
    ELSE 1

BarText(k) == "[" \o BarRoots[k] \o "]" \o BarSyllables[k]

\* Line g of the song: bars (g-1)*size+1 .. g*size, the last line shorter.
RECURSIVE BarsFromTo(_, _)
BarsFromTo(from, to) ==
    IF from > to THEN ""
    ELSE IF from = to THEN BarText(from)
    ELSE BarText(from)
           \o (IF options.barlineStyle = "pipes" THEN " | " ELSE "  ")
           \o BarsFromTo(from + 1, to)

ExpectedLine(g) ==
    LET bars == BarsFromTo((g - 1) * BarsOnALine + 1, Min(g * BarsOnALine, BarCount)) IN
    IF options.barlineStyle = "pipes" THEN "| " \o bars \o " |" ELSE bars

\* C19: emitWrappedBars returns, for every barsPerLine (0 and negatives
\* too), the measure texts in order and each once, in consecutive groups of
\* barsPerLine measures with only the last group shorter, or one group
\* under no-wrap, each group written "| m1 | m2 | ... |" under pipes; one
\* measure with the syllable Hey and the harmony C gives "| [C]Hey |".
C19_BarsWrappedInOrder ==
    Converted =>
        /\ Len(TextLines) = (BarCount + BarsOnALine - 1) \div BarsOnALine
        /\ \A g \in 1..Len(TextLines) : TextLines[g] = ExpectedLine(g)
        /\ (BarCount = 1 /\ options.barlineStyle = "pipes") => chordPro = "| [C]Hey |"

\* Five bars under barsPerLine 0: a full line of four and a last line of one.
C19_Witness ==
    /\ Converted
    /\ options.barsPerLine = 0
    /\ options.wrapPolicy = "bars-per-line"
    /\ chordPro = "| [C]Hey | [D]q | [E]r | [G]s |\n| [A]t |"

-----------------------------------------------------------------------------
(* Chart texts *)

MaxLines == 3

\* The lines a chart text is made of.  field and value say what the line
\* is when it stands alone as a metadata directive ("" otherwise).
ChartLinePool ==
    {[text |-> "{title: A}", field |-> "title", value |-> "A"],
     [text |-> "{t: B}", field |-> "title", value |-> "B"],
     [text |-> "{title: }", field |-> "title", value |-> ""],
     [text |-> "{Key:G}\r", field |-> "key", value |-> "G"],
     [text |-> "{start_of_verse}", field |-> "", value |-> ""],
     [text |-> "{end_of_verse}", field |-> "", value |-> ""],
     [text |-> "{c: soft}", field |-> "", value |-> ""],
     [text |-> "[Chorus]", field |-> "", value |-> ""],
     [text |-> "[Am]la [G]", field |-> "", value |-> ""],
     [text |-> " [", field |-> "", value |-> ""],
     [text |-> "Am  G7", field |-> "", value |-> ""],
     [text |-> "la la", field |-> "", value |-> ""]}

ChartFormats == {"chordpro", "ultimateguitar", "chords-over-words"}

PInit ==
    \E n \in 1..MaxLines :
      \E chosen \in [1..n -> ChartLinePool] :
        \E sourceFormat \in ChartFormats :
          CStart(JoinWith([k \in 1..n |-> chosen[k].text], "\n"), sourceFormat)

-----------------------------------------------------------------------------
(* Claims C6 and C7: the parsed document *)

ParseDone == cpc = "done"

\* C6: a document returned by parseChordPro, parseUltimateGuitar or
\* parseChordsOverWords has no section with zero lines and no line with zero
\* tokens; a start_of_verse directive directly followed by an end_of_verse
\* directive yields zero sections.
C6_NoEmptySectionNoEmptyLine ==
    ParseDone =>
        /\ \A i \in 1..Len(chartDoc.sections) :
              /\ Len(chartDoc.sections[i].lines) > 0
              /\ \A j \in 1..Len(chartDoc.sections[i].lines) :
                    Len(chartDoc.sections[i].lines[j].tokens) > 0
        /\ (chartFormat # "chords-over-words"
            /\ chartText = "{start_of_verse}\n{end_of_verse}")
           => chartDoc.sections = <<>>

C6_Witness ==
    /\ ParseDone
    /\ chartFormat = "chordpro"
    /\ chartText = "{start_of_verse}\n{end_of_verse}"
    /\ chartDoc.sections = <<>>

MetadataFields == {"title", "artist", "subtitle", "key", "capo", "tempo", "time"}

\* What a raw line is, by the pool it was taken from; the empty line is
\* what follows a final line break.
PoolLine(raw) ==
    IF raw = "" THEN [text |-> "", field |-> "", value |-> ""]
    ELSE CHOOSE e \in ChartLinePool : e.text = raw \/ e.text = raw \o "\r"

\* The raw lines (1-based) that are directives for field f, with any value
\* or with a value that is not empty.
DirectivesFor(f) == {i \in 1..Len(rawLines) : PoolLine(rawLines[i]).field = f}

ValuedDirectivesFor(f) == {i \in DirectivesFor(f) : PoolLine(rawLines[i]).value # ""}

Greatest(S) == CHOOSE x \in S : \A y \in S : x >= y

ParseChordProDone == ParseDone /\ chartFormat # "chords-over-words"

\* C7 as stated: after parseChordPro each metadata field equals the value of
\* the last directive for that field in the text.
C7_LastDirectiveWins ==
    ParseChordProDone =>
        \A f \in MetadataFields :
            chartDoc[f] = IF DirectivesFor(f) = {} THEN ""
                          ELSE PoolLine(rawLines[Greatest(DirectivesFor(f))]).value

\* C7 as amended: each metadata field equals the value of the last directive
\* for that field that carries a value; a directive with an empty value
\* leaves the field as it was.
C7_LastValuedDirectiveWins ==
    ParseChordProDone =>
        \A f \in MetadataFields :
            chartDoc[f] = IF ValuedDirectivesFor(f) = {} THEN ""
                          ELSE PoolLine(rawLines[Greatest(ValuedDirectivesFor(f))]).value

C7_Witness ==
    /\ ParseChordProDone
    /\ rawLines = <<"{title: A}", "[Chorus]", "{t: B}">>
    /\ chartDoc.title = "B"

-----------------------------------------------------------------------------
(* Chart texts that are exported and loaded again *)

\* Lines for every section type of SECTION_START, labelled and unlabelled,
\* an end directive, a header whose label names no type, and content.
ExportLinePool ==
    {"{title: A}", "{start_of_verse: V1}", "{start_of_chorus}", "{start_of_bridge}",
     "{sog}", "{sot}", "{start_of_pre_chorus}", "{start_of_intro}",
     "{start_of_outro: End}", "{start_of_interlude}", "{start_of_solo}",
     "{eoc}", "[Hook]", "[Verse 2]", "lo [Am]la [G]", "{c: soft}", "la la"}

EInit ==
    \E n \in 1..MaxLines :
      \E chosen \in [1..n -> ExportLinePool] :
        \E sourceFormat \in ChartFormats :
          CStart(JoinWith(chosen, "\n"), sourceFormat)

-----------------------------------------------------------------------------
(* Claim C12: the serializer inverts the ChordPro parser *)

\* The exported text of a document returned by parseChordPro has been
\* parsed again.
Reparsed == cpc = "done" /\ tpc = "reloaded" /\ tdoc.sourceFormat = "chordpro"

\* C12: for every document d returned by parseChordPro,
\* parseChordPro(serializeChordProFromDocument(d, 0)) has the same metadata
\* fields and the same sequence of sections (type, label, lines and tokens)
\* as d.
C12_SerializeThenParseIsIdentity ==
    Reparsed =>
        /\ \A f \in MetadataFields : chartDoc[f] = tdoc[f]
        /\ chartDoc.sections = tdoc.sections

-----------------------------------------------------------------------------
(* Calls made one after another and side by side *)

MaxCalls == 3

\* A plausible slip: one warnings list at module level, shared by the calls.
NewWarningsShared(previous) == previous

\* const warnings: string[] = []: every call makes its own list.
NewWarnings(previous) == <<>>

\* convertMusicXmlToChordPro(input, options) is called: its locals are new.
CallConvert(xml, opts) ==
    /\ xpc = "idle"
    /\ calls.count < MaxCalls
    /\ xpc' = "start"
    /\ xmlDoc' = xml
    /\ options' = opts
    /\ warnings' = NewWarnings(warnings)
    /\ diagnostics' = InitialDiagnostics(xml, opts)
    /\ metadata' = EmptyMetadata
    /\ curDivisions' = 1
    /\ measureList' = <<>>
    /\ measureOrder' = <<>>
    /\ chordPro' = ""
    /\ error' = ""
    /\ calls' = [calls EXCEPT !.count = @ + 1]
    /\ UNCHANGED <<tvars, cvars, svars, ivars, avars, zvars>>

\* The call returns {chordPro, warnings, error, diagnostics} to its caller.
ReturnConvert ==
    /\ xpc = "done"
    /\ xpc' = "idle"
    /\ calls' = [calls EXCEPT !.converted = @ \cup
                     {[input |-> xmlDoc, options |-> options, chordPro |-> chordPro,
                       warnings |-> warnings, error |-> error]}]
    /\ UNCHANGED <<xmlDoc, options, warnings, diagnostics, metadata, curDivisions,
                   measureList, measureOrder, chordPro, error, tvars, cvars, svars, ivars, avars, zvars>>

\* parseChordChart(text, sourceFormat) is called: its locals are new.
CallParse(text, sourceFormat) ==
    /\ cpc = "idle"
    /\ calls.count < MaxCalls
    /\ cpc' = "start"
    /\ chartText' = text
    /\ chartFormat' = sourceFormat
    /\ rawLines' = <<>>
    /\ lineIndex' = 0
    /\ chartDoc' = EmptyDoc
    /\ currentSection' = makeSection("unknown", "")
    /\ calls' = [calls EXCEPT !.count = @ + 1]
    /\ UNCHANGED <<tvars, xvars, svars, ivars, avars, zvars>>

\* The call returns the document to its caller.
ReturnParse ==
    /\ cpc = "done"
    /\ cpc' = "idle"
    /\ calls' = [calls EXCEPT !.parsed = @ \cup
                     {[text |-> chartText, sourceFormat |-> chartFormat, doc |-> chartDoc]}]
    /\ UNCHANGED <<chartText, chartFormat, rawLines, lineIndex, chartDoc, currentSection,
                   tvars, xvars, svars, ivars, avars, zvars>>

CallDocuments ==
    {ScoreOf(<<<<Note("4", <<>>)>>>>), [ScoreOf(<<SongMeasure>>) EXCEPT !.workTitle = "Song"]}

CallOptionSets ==
    {getDefaultConvertOptions, [getDefaultConvertOptions EXCEPT !.formatMode = "lyrics-inline"]}

CallTexts == {"[Am]la [G]", "{soc}\nAm G\nla la"}

CallFormats == {"chordpro", "chords-over-words"}

HNext ==
    \/ \E xml \in CallDocuments, opts \in CallOptionSets : CallConvert(xml, opts)
    \/ XNext
    \/ ReturnConvert
    \/ \E text \in CallTexts, sourceFormat \in CallFormats : CallParse(text, sourceFormat)
    \/ CNext
    \/ ReturnParse

-----------------------------------------------------------------------------
(* Claim C16: no state is kept between calls *)

\* C16: any two calls of the conversion with the same input and options
\* return the same ChordPro text and the same warnings, and any two calls
\* of the chart parser with the same text and format return the same
\* document, whether they run one after another or with other calls in
\* between or in progress.
C16_CallsAreIndependent ==
    /\ \A r1, r2 \in calls.converted :
          (r1.input = r2.input /\ r1.options = r2.options)
            => (r1.chordPro = r2.chordPro /\ r1.warnings = r2.warnings)
    /\ \A r1, r2 \in calls.parsed :
          (r1.text = r2.text /\ r1.sourceFormat = r2.sourceFormat) => r1.doc = r2.doc

\* Three calls have returned, two of them with the same input: a
\* conversion was repeated around another call and gave warnings both times.
C16_Witness ==
    /\ calls.count = 3
    /\ xpc = "idle"
    /\ cpc = "idle"
    /\ Cardinality(calls.converted) = 1
    /\ Cardinality(calls.parsed) = 1
    /\ \E r \in calls.converted : Len(r.warnings) > 0

-----------------------------------------------------------------------------
(* One line put to both isChordLine functions *)

\* parseChordsOverWords asks its isChordLine about the line.
AskParser ==
    /\ ipc = "start"
    /\ parserAnswer' = isChordLine(chordLine)
    /\ ipc' = "parser"
    /\ UNCHANGED <<chordLine, snifferAnswer, tvars, xvars, cvars, svars, hvars, avars, zvars>>

\* sniffFormatFromBytes asks its isChordLine about the line.
AskSniffer ==
    /\ ipc = "parser"
    /\ snifferAnswer' = SniffIsChordLine(chordLine)
    /\ ipc' = "done"
    /\ UNCHANGED <<chordLine, parserAnswer, tvars, xvars, cvars, svars, hvars, avars, zvars>>

INext ==
    \/ AskParser
    \/ AskSniffer

MaxTokens == 4

\* Words of a line, each with whether it is written as a chord symbol.
TokenPool ==
    {[text |-> "Am", chord |-> TRUE],
     [text |-> "F#m7/C#", chord |-> TRUE],
     [text |-> "Dsus4", chord |-> TRUE],
     [text |-> "la", chord |-> FALSE],
     [text |-> "Ab#", chord |-> FALSE]}

IInit ==
    \E n \in 1..MaxTokens :
      \E chosen \in [1..n -> TokenPool] :
        /\ ipc = "start"
        /\ chordLine = JoinWith([k \in 1..n |-> chosen[k].text], " ")
        /\ parserAnswer = FALSE
        /\ snifferAnswer = FALSE

-----------------------------------------------------------------------------
(* Claim C20: the two isChordLine functions *)

WordsOfLine == SplitBy(chordLine, " ")

ChordWords ==
    Cardinality({k \in 1..Len(WordsOfLine) :
                    (CHOOSE e \in TokenPool : e.text = WordsOfLine[k]).chord})

SeventyPercent == 10 * ChordWords >= 7 * Len(WordsOfLine)

\* C20 as claimed: both functions answer yes exactly when at least 2 tokens
\* match the chord grammar and at least 70% of the tokens match, so they
\* give the same answer for every line.
C20_SameChordLineRule ==
    ipc = "done" =>
        /\ parserAnswer = (ChordWords >= 2 /\ SeventyPercent)
        /\ snifferAnswer = (ChordWords >= 2 /\ SeventyPercent)
        /\ parserAnswer = snifferAnswer

\* C20 as the code has it: the parser asks for at least 1 matching token,
\* the classifier for at least 2, both for at least 70%; the answers differ
\* exactly on a line that is one single chord.
C20_ParserAcceptsOneChord ==
    ipc = "done" =>
        /\ parserAnswer = (ChordWords >= 1 /\ SeventyPercent)
        /\ snifferAnswer = (ChordWords >= 2 /\ SeventyPercent)
        /\ (parserAnswer # snifferAnswer) <=> (Len(WordsOfLine) = 1 /\ ChordWords = 1)

C20_Witness ==
    /\ ipc = "done"
    /\ chordLine = "F#m7/C#"
    /\ parserAnswer
    /\ ~snifferAnswer

-----------------------------------------------------------------------------
(* Files for the classifier *)

MaxSniffLines == 3

\* The lines a file is made of, each with the rule it is written to meet:
\* a MusicXML root, an XML prolog, a ChordPro directive, a section header,
\* an inline bracket chord, a line of chords, or plain text.
SniffLinePool ==
    {[text |-> "<score-partwise>", feature |-> "root"],
     [text |-> "<?xml version='1.0'?>", feature |-> "prolog"],
     [text |-> "{title: X}", feature |-> "directive"],
     [text |-> "[Verse 1]", feature |-> "header"],
     [text |-> " [Chorus]", feature |-> "bracket"],
     [text |-> "[Am]la", feature |-> "bracket"],
     [text |-> "Am G", feature |-> "chords"],
     [text |-> "la la", feature |-> "text"],
     [text |-> "{eoc}", feature |-> "text"]}

SniffFiles ==
    {[name |-> "", ext |-> ""], [name |-> "a.xml", ext |-> "xml"],
     [name |-> "b.PRO", ext |-> "pro"]}

\* TextEncoder on the characters of the model's texts.
EncodeChar(ch) ==
    IF ch = "\n" THEN 10
    ELSE IF includesChar(AsciiTo95, ch) THEN 32 + indexOf(AsciiTo95, ch)
    ELSE 97 + indexOf(AsciiFrom97, ch)

EncodeText(text) == [i \in 1..Len(text) |-> EncodeChar(CharAt(text, i - 1))]

\* The bytes of each line of the pool.
BytesOfLine == [e \in SniffLinePool |-> EncodeText(e.text)]

RECURSIVE BytesOfLines(_)
BytesOfLines(chosen) ==
    IF Len(chosen) = 1 THEN BytesOfLine[chosen[1]]
    ELSE BytesOfLine[chosen[1]] \o <<10>> \o BytesOfLines(Tail(chosen))

FilePrefixes == {<<>>, ZIP_MAGIC, UTF8_BOM}

FInit ==
    \E n \in 1..MaxSniffLines :
      \E chosen \in [1..n -> SniffLinePool] :
        \E prefix \in FilePrefixes, file \in SniffFiles :
          SStart(prefix \o BytesOfLines(chosen), file.name)

-----------------------------------------------------------------------------
(* Claim C9: the order of the classifier's rules *)

StartsWithZipMagic == Len(sniffBytes) >= 4 /\ SubSeq(sniffBytes, 1, 4) = <<80, 75, 3, 4>>

\* The features of the lines of the decoded text, in order.
FeaturesOfText ==
    LET lines == SplitBy(sniffText, "\n") IN
    [i \in 1..Len(lines) |-> (CHOOSE e \in SniffLinePool : e.text = lines[i]).feature]

HasFeature(f) == \E i \in 1..Len(FeaturesOfText) : FeaturesOfText[i] = f

CountFeature(f) == Cardinality({i \in 1..Len(FeaturesOfText) : FeaturesOfText[i] = f})

ExtOfFile == (CHOOSE file \in SniffFiles : file.name = sniffFilename).ext

\* The tag of the first rule that the file meets.
FirstMatchingRule ==
    IF StartsWithZipMagic THEN "mxl"
    ELSE IF HasFeature("root") THEN "musicxml"
    ELSE IF ExtOfFile = "xml" /\ FeaturesOfText[1] = "prolog" THEN "musicxml"
    ELSE IF HasFeature("directive") THEN "chordpro"
    ELSE IF HasFeature("header") THEN "ultimateguitar"
    ELSE IF HasFeature("bracket") THEN "chordpro"
    ELSE IF /\ CountFeature("chords") >= 2
            /\ 4 * CountFeature("chords") >= Len(FeaturesOfText) - CountFeature("chords")
         THEN "chords-over-words"
    ELSE IF ExtOfFile = "pro" THEN "chordpro"
    ELSE "unknown"

\* C9: sniffFormatFromBytes returns the tag of the first matching rule in
\* the order ZIP magic, MusicXML root or prolog, ChordPro directive, section
\* header, inline bracket chord, chord-line heuristic, extension, unknown; a
\* text with a directive and a section header is chordpro, and bytes that
\* start with the ZIP magic are mxl whatever follows.
C9_FirstMatchingRuleDecides ==
    spc = "done" =>
        /\ sniffed = FirstMatchingRule
        /\ StartsWithZipMagic => sniffed = "mxl"
        /\ (~StartsWithZipMagic /\ sniffText = "{title: X}\n[Verse 1]") => sniffed = "chordpro"

C9_Witness ==
    /\ spc = "done"
    /\ sniffText = "[Verse 1]\n{title: X}\nAm G"
    /\ sniffed = "chordpro"

-----------------------------------------------------------------------------
(* Measures of <backup>, <forward>, <note> and <harmony> children *)

MaxChildren == 3

CursorDurations == {"-2", "1", "3"}

\* The children a measure is made of: each cursor step with each duration
\* (the notes sung), and a <harmony> without <offset>.
CursorChildren ==
    {Backup(d) : d \in CursorDurations}
      \cup {Forward(d) : d \in CursorDurations}
      \cup {Note(d, <<Lyric("1", "la", "single")>>) : d \in CursorDurations}
      \cup {HarmonyEl("C", "", "major", FALSE, "")}

DInit ==
    \E n \in 1..MaxChildren :
      \E children \in [1..n -> CursorChildren] :
        XStart(ScoreOf(<<children>>), getDefaultConvertOptions)

-----------------------------------------------------------------------------
(* Claim C21: the cursor of a measure *)

\* The offsets of the lyric events and of the harmonies of the timeline.
TimelineOffsets ==
    UNION {{measureList[m].harmonies[i].offsetDivisions :
               i \in 1..Len(measureList[m].harmonies)}
             \cup UNION {{measureList[m].lyricsByVerse[v][i].offsetDivisions :
                             i \in 1..Len(measureList[m].lyricsByVerse[v])} :
                         v \in DOMAIN measureList[m].lyricsByVerse} :
           m \in 1..Len(measureList)}

\* C21: whatever backup, forward and note steps a measure holds and whatever
\* integer durations they carry, the cursor is never negative: no lyric
\* event and no harmony placed at the cursor has a negative offset.
C21_CursorNeverNegative ==
    TimelineBuilt => \A offset \in TimelineOffsets : offset >= 0

-----------------------------------------------------------------------------
(* Measures whose harmonies carry an <offset>, in one part or in two *)

OffsetTexts == {"2", "1", "x"}

\* The children of the lyric part's measure: a <harmony> with each root and
\* each <offset> text ("x" is no number), a <harmony> at the cursor, a sung
\* note and a <backup>.
OffsetChildren ==
    {HarmonyEl(root, "", "major", TRUE, off) : root \in {"C", "D"}, off \in OffsetTexts}
      \cup {HarmonyEl("C", "", "major", FALSE, ""),
            Note("1", <<Lyric("1", "la", "single")>>),
            Backup("1")}

\* The measure of a second part: none, or a harmony that the lyric part may
\* hold as well.
SecondPartMeasures ==
    {<<>>,
     <<HarmonyEl("C", "", "major", TRUE, "2")>>}

OInit ==
    \E n \in 1..MaxChildren :
      \E children \in [1..n -> OffsetChildren], second \in SecondPartMeasures :
        XStart([wellFormed |-> TRUE, workTitle |-> "", movementTitle |-> "",
                composer |-> "",
                parts |-> <<[id |-> "P1", measures |-> <<children>>]>>
                            \o (IF second = <<>> THEN <<>>
                                ELSE <<[id |-> "P2", measures |-> <<second>>]>>)],
               getDefaultConvertOptions)

-----------------------------------------------------------------------------
(* Claim C22: harmonies without duplicates, harmonies and lyrics in order *)

\* No two events of the list have the same offset and the same chord text.
NoDuplicateHarmony(hs) ==
    \A i, j \in 1..Len(hs) :
        i < j => ~(/\ hs[i].offsetDivisions = hs[j].offsetDivisions
                   /\ hs[i].chordText = hs[j].chordText)

\* Of any two events whose offsets are numbers the earlier in the list has
\* the smaller or the same offset.
InOffsetOrder(events) ==
    \A i, j \in 1..Len(events) :
        (i < j /\ ~IsNaN(events[i].offsetDivisions) /\ ~IsNaN(events[j].offsetDivisions))
            => events[i].offsetDivisions <= events[j].offsetDivisions

\* C22: in every measure of a built timeline no two harmonies share offset
\* and chord text, also when several parts carry the same harmony; the
\* harmonies are in non-decreasing offset order, and so is every
\* lyricsByVerse list.
C22_HarmoniesDedupedAllInOrder ==
    TimelineBuilt =>
        \A m \in 1..Len(measureList) :
            /\ NoDuplicateHarmony(measureList[m].harmonies)
            /\ InOffsetOrder(measureList[m].harmonies)
            /\ \A v \in DOMAIN measureList[m].lyricsByVerse :
                  InOffsetOrder(measureList[m].lyricsByVerse[v])

-----------------------------------------------------------------------------
(* Measures whose harmonies share slots of the grid *)

CollisionOffsets == {"0", "1", "5", "x"}

JInit ==
    \E h \in 0..MaxChildren :
      \E offsets \in [1..h -> CollisionOffsets] :
        \E duration \in {"0", "8"}, slots \in {0, 2} :
          XStart(ScoreOf(<<GridMeasure("", offsets, duration)>>),
                 [getDefaultConvertOptions EXCEPT !.gridSlotsPerMeasure = slots])

-----------------------------------------------------------------------------
(* Claim C23: collisions in the grid *)

\* The slot a harmony maps to in a measure of duration d with n slots: slot
\* 0 when d is not positive, no slot (-1) for an offset that is no number.
SlotMappedTo(harmony, d, n) ==
    IF d <= 0 THEN 0
    ELSE IF IsNaN(harmony.offsetDivisions) THEN -1
    ELSE ClaimedSlot(harmony.offsetDivisions, d, n)

\* The harmonies (by index) that map to slot k.
MappedTo(hs, d, n, k) == {h \in 1..Len(hs) : SlotMappedTo(hs[h], d, n) = k}

\* Those of them with the smallest offset: none of the others has an offset
\* that is a smaller number.
SmallestOf(hs, S) ==
    {h \in S : \A other \in S :
        (~IsNaN(hs[h].offsetDivisions) /\ ~IsNaN(hs[other].offsetDivisions))
            => hs[h].offsetDivisions <= hs[other].offsetDivisions}

\* The number of harmonies of measure i (1-based) shown in a cell.
PlacedIn(i) ==
    Cardinality({k \in 1..Len(CellsOfMeasure(chordPro, i)) :
                    CellsOfMeasure(chordPro, i)[k] # "."})

\* The harmonies of the timeline that are shown in no cell.
DroppedTotal ==
    SumOver([i \in 1..Len(measureList) |-> Len(measureList[i].harmonies) - PlacedIn(i)],
            Len(measureList))

CollisionWarnings ==
    {w \in 1..Len(warnings) : startsWith(warnings[w], "Chord collisions within same slot: ")}

\* C23: in grid-only rendering every harmony of a measure is shown in
\* exactly one cell or dropped and counted as one collision; the cell of a
\* slot that several harmonies map to shows the one with the smallest
\* offset; the collisions are reported in one warning when there are any,
\* and the error field stays unset.
C23_CollisionsCountedSmallestKept ==
    GridRendered =>
        /\ error = ""
        /\ \A i \in 1..Len(measureList) :
              LET hs == measureList[i].harmonies
                  d == measureList[i].durationDivisions
                  cells == CellsOfMeasure(chordPro, i)
              IN  /\ \A h \in 1..Len(hs) :
                        Cardinality({k \in 1..Len(cells) :
                                        cells[k] = "[" \o hs[h].chordText \o "]"}) <= 1
                  /\ \A k \in 0..(SlotsInForce - 1) :
                        IF MappedTo(hs, d, SlotsInForce, k) = {} THEN cells[k + 1] = "."
                        ELSE \E h \in SmallestOf(hs, MappedTo(hs, d, SlotsInForce, k)) :
                                cells[k + 1] = "[" \o hs[h].chordText \o "]"
        /\ IF DroppedTotal > 0
           THEN \E w \in CollisionWarnings :
                   /\ CollisionWarnings = {w}
                   /\ warnings[w] = "Chord collisions within same slot: "
                                      \o IntToText(DroppedTotal)
                                      \o ". Consider higher grid resolution."
           ELSE CollisionWarnings = {}

-----------------------------------------------------------------------------
(* Chords-over-words texts *)

\* The lines a chords-over-words text is made of, with what each is: a
\* chord line with its words, a lyric line with its text without the white
\* space around it, or a blank line.
OverWordsLinePool ==
    {[text |-> "Am  G7", kind |-> "chords", words |-> <<"Am", "G7">>, trimmed |-> "Am  G7"],
     [text |-> " C", kind |-> "chords", words |-> <<"C">>, trimmed |-> "C"],
     [text |-> "Am G C la", kind |-> "chords", words |-> <<"Am", "G", "C", "la">>,
      trimmed |-> "Am G C la"],
     [text |-> "la la", kind |-> "lyric", words |-> <<>>, trimmed |-> "la la"],
     [text |-> "  la  di ", kind |-> "lyric", words |-> <<>>, trimmed |-> "la  di"],
     [text |-> "Am la", kind |-> "lyric", words |-> <<>>, trimmed |-> "Am la"],
     [text |-> "", kind |-> "blank", words |-> <<>>, trimmed |-> ""],
     [text |-> "  ", kind |-> "blank", words |-> <<>>, trimmed |-> ""]}

WInit ==
    \E n \in 1..MaxLines :
      \E chosen \in [1..n -> OverWordsLinePool] :
        CStart(JoinWith([k \in 1..n |-> chosen[k].text], "\n"), "chords-over-words")

\* parseChordsOverWords alone.
WNext ==
    \/ SplitLines
    \/ OverWordsLine
    \/ FinishParse

-----------------------------------------------------------------------------
(* Claim C24: chord lines paired with lyric lines *)

OverWordsLineOf(raw) == CHOOSE e \in OverWordsLinePool : e.text = raw

\* The lines of the text as the pool describes them.
OverWordsLines == [i \in 1..Len(rawLines) |-> OverWordsLineOf(rawLines[i])]

\* The ChartLines the lines from i on give, each line read once: a chord
\* line with the lyric line right after it, a chord line alone, a lyric
\* line alone; blank lines give nothing.  The lyric token of a pair holds
\* the second line as it stands (verbatim) or without the white space
\* around it.
RECURSIVE PairedLines(_, _, _)
PairedLines(ls, i, verbatim) ==
    IF i > Len(ls) THEN <<>>
    ELSE IF ls[i].kind = "blank" THEN PairedLines(ls, i + 1, verbatim)
    ELSE IF ls[i].kind = "chords"
    THEN LET chords == [k \in 1..Len(ls[i].words) |-> [kind |-> "chord", text |-> ls[i].words[k]]]
         IN  IF i + 1 <= Len(ls) /\ ls[i + 1].kind = "lyric"
             THEN <<[tokens |-> Append(chords,
                        [kind |-> "lyric",
                         text |-> IF verbatim THEN ls[i + 1].text ELSE ls[i + 1].trimmed])]>>
                    \o PairedLines(ls, i + 2, verbatim)
             ELSE <<[tokens |-> chords]>> \o PairedLines(ls, i + 1, verbatim)
    ELSE <<[tokens |-> <<[kind |-> "lyric", text |-> ls[i].trimmed]>>]>>
           \o PairedLines(ls, i + 1, verbatim)

\* The document holds the lines in one section of type unknown (no section
\* when there is no line).
InOneUnknownSection(lines) ==
    IF lines = <<>> THEN chartDoc.sections = <<>>
    ELSE /\ Len(chartDoc.sections) = 1
         /\ chartDoc.sections[1].type = "unknown"
         /\ chartDoc.sections[1].lines = lines

\* Every pass of the loop moves on in the text, or the parser returns: with
\* the index never beyond the end of the text, the loop terminates.
ReadsOn == cpc = "lines" => (lineIndex' > lineIndex \/ cpc' = "done")

\* C24 as stated: parseChordsOverWords terminates and reads every non-blank
\* line exactly once; a chord line right before a non-blank non-chord line
\* gives one ChartLine of the chord line's tokens and one lyric token with
\* the whole second line; another chord line gives a chord-only line, any
\* other line a single lyric token; all in one section of type unknown.
C24_PairedWithWholeLine ==
    /\ [](ParseDone => InOneUnknownSection(PairedLines(OverWordsLines, 1, TRUE)))
    /\ [](cpc = "lines" => lineIndex <= Len(rawLines))
    /\ [][ReadsOn]_vars

\* C24 amended: the lyric token of a pair holds the second line without its
\* leading and trailing white space.
C24_PairedWithTrimmedLine ==
    /\ [](ParseDone => InOneUnknownSection(PairedLines(OverWordsLines, 1, FALSE)))
    /\ [](cpc = "lines" => lineIndex <= Len(rawLines))
    /\ [][ReadsOn]_vars

C24_Witness ==
    /\ ParseDone
    /\ chartText = "Am  G7\n  la  di \nAm G C la"
    /\ chartDoc.sections[1].lines =
          <<[tokens |-> <<ChordToken("Am"), ChordToken("G7"), LyricToken("la  di")>>],
            [tokens |-> <<ChordToken("Am"), ChordToken("G"), ChordToken("C"),
                          ChordToken("la")>>]>>

-----------------------------------------------------------------------------
(* ChordPro texts with sections *)

\* The lines a sectioned text is made of, with what each is: the start of a
\* section (type, label), the end of a section, a content line (its
\* tokens), or a line that leaves the sections alone (metadata and
\* unrecognized directives).
SectionLinePool ==
    {[text |-> "{start_of_verse: V1}", kind |-> "start", type |-> "verse", label |-> "V1",
      tokens |-> <<>>],
     [text |-> "{SOC}", kind |-> "start", type |-> "chorus", label |-> "", tokens |-> <<>>],
     [text |-> "{end_of_verse}", kind |-> "end", type |-> "", label |-> "", tokens |-> <<>>],
     [text |-> "la la", kind |-> "content", type |-> "", label |-> "",
      tokens |-> <<[kind |-> "lyric", text |-> "la la"]>>],
     [text |-> "[Am]la", kind |-> "content", type |-> "", label |-> "",
      tokens |-> <<[kind |-> "chord", text |-> "Am"], [kind |-> "lyric", text |-> "la"]>>],
     [text |-> "{c: soft}", kind |-> "content", type |-> "", label |-> "",
      tokens |-> <<[kind |-> "comment", text |-> "soft"]>>],
     [text |-> "{title: A}", kind |-> "other", type |-> "", label |-> "", tokens |-> <<>>],
     [text |-> "{define: X}", kind |-> "other", type |-> "", label |-> "", tokens |-> <<>>],
     [text |-> "{constructor}", kind |-> "other", type |-> "", label |-> "", tokens |-> <<>>]}

YInit ==
    \E n \in 1..MaxLines :
      \E chosen \in [1..n -> SectionLinePool] :
        CStart(JoinWith([k \in 1..n |-> chosen[k].text], "\n"), "chordpro")

\* parseChordPro alone.
YNext ==
    \/ SplitLines
    \/ ChordProLine
    \/ FinishParse

-----------------------------------------------------------------------------
(* Claim C25: sections in the order they are opened *)

SectionLineOf(raw) == CHOOSE e \in SectionLinePool : e.text = raw

\* A section is retained when it has a line.
Retained(sections, open) == IF open.lines = <<>> THEN sections ELSE Append(sections, open)

\* The sections the lines from i on give: a start closes the open section
\* and opens one of its type and label, an end closes it and opens an
\* untyped one, a content line goes to the open section, any other line
\* changes nothing; the open section is closed at the end of the text.
RECURSIVE SectionsOpened(_, _, _, _)
SectionsOpened(ls, i, sections, open) ==
    IF i > Len(ls) THEN Retained(sections, open)
    ELSE LET l == SectionLineOf(ls[i]) IN
         IF l.kind = "start"
         THEN SectionsOpened(ls, i + 1, Retained(sections, open),
                             [type |-> l.type, label |-> l.label, lines |-> <<>>])
         ELSE IF l.kind = "end"
         THEN SectionsOpened(ls, i + 1, Retained(sections, open),
                             [type |-> "unknown", label |-> "", lines |-> <<>>])
         ELSE IF l.kind = "content"
         THEN SectionsOpened(ls, i + 1, sections,
                             [open EXCEPT !.lines = Append(@, [tokens |-> l.tokens])])
         ELSE SectionsOpened(ls, i + 1, sections, open)

\* C25: in parseChordPro a section-start directive closes the open section
\* and opens one of the directive's type, labelled with its value; an
\* end-of-section directive closes it and opens an untyped one; each content
\* line goes to the section open when it is read, so the retained sections
\* stand in the document in the order they were opened, each with its own
\* content lines.
C25_ContentInTheOpenSection ==
    ParseDone =>
        chartDoc.sections =
            SectionsOpened(rawLines, 1, <<>>, [type |-> "unknown", label |-> "", lines |-> <<>>])

-----------------------------------------------------------------------------
(* Texts with [Label] section headers *)

\* The lines a text with section headers is made of.  header is the label
\* of a [Label] header ("" for another line); pre says that the label
\* contains pre-chorus or prechorus in any case.
HeaderLinePool ==
    {[text |-> "[Pre-Chorus]", header |-> "Pre-Chorus", pre |-> TRUE],
     [text |-> "[PRECHORUS 2]", header |-> "PRECHORUS 2", pre |-> TRUE],
     [text |-> "[Chorus]", header |-> "Chorus", pre |-> FALSE],
     [text |-> "[Verse 1]", header |-> "Verse 1", pre |-> FALSE],
     [text |-> "[Solo]", header |-> "Solo", pre |-> FALSE],
     [text |-> "{start_of_pre_chorus: P}", header |-> "", pre |-> FALSE],
     [text |-> "{end_of_pre_chorus}", header |-> "", pre |-> FALSE],
     [text |-> "la", header |-> "", pre |-> FALSE]}

UInit ==
    \E n \in 1..MaxLines :
      \E chosen \in [1..n -> HeaderLinePool] :
        \E sourceFormat \in {"chordpro", "ultimateguitar"} :
          CStart(JoinWith([k \in 1..n |-> chosen[k].text], "\n"), sourceFormat)

-----------------------------------------------------------------------------
(* Claim C26: no pre-chorus section from a [Label] header *)

\* The pool lines that are headers with the label.
HeadersLabelled(label) == {e \in HeaderLinePool : e.header # "" /\ e.header = label}

\* C26: a section opened by a [Label] header is never of type pre-chorus: a
\* label that contains pre-chorus or prechorus contains chorus and gives a
\* section of type chorus.
C26_HeaderNeverPreChorus ==
    ParseDone =>
        \A i \in 1..Len(chartDoc.sections) :
            \A e \in HeadersLabelled(chartDoc.sections[i].label) :
                /\ chartDoc.sections[i].type # "pre-chorus"
                /\ e.pre => chartDoc.sections[i].type = "chorus"

C26_Witness ==
    /\ ParseDone
    /\ chartText = "[Pre-Chorus]\nla\n[PRECHORUS 2]"
    /\ Len(chartDoc.sections) = 1
    /\ chartDoc.sections[1].label = "Pre-Chorus"
    /\ chartDoc.sections[1].type = "chorus"

-----------------------------------------------------------------------------
(* Chord-chart controls of the App component: src/unnamed/part_003, lines
   1684-1685, 1817-1821, 2105-2118 *)

MaxPresses == 4

AIdle ==
    /\ apc = "idle"
    /\ chartDocument = EmptyDoc
    /\ appTransposeSteps = 0
    /\ pressed = <<>>
    /\ shownAtLoad = ""

\* const chartProText = useMemo(...): the exported text is a function of
\* chartDocument and appTransposeSteps.
chartProTextMemo ==
    IF apc # "chart" THEN ""
    ELSE serializeChordProFromDocument(chartDocument, appTransposeSteps)

\* loadFile, chord-chart path: setChartDocument(doc); setTransposeSteps(0).
AInit ==
    /\ apc = "chart"
    /\ \E c \in ChordInputs : chartDocument \in DocsAround(c)
    /\ appTransposeSteps = 0
    /\ pressed = <<>>
    /\ shownAtLoad = serializeChordProFromDocument(chartDocument, 0)

\* The state update of adjustTranspose.
NextTransposeSteps(prev, delta) ==
    LET wrapped == (JsRem(JsRem(prev + delta + 12, 12) + 12, 12)) IN
    IF wrapped = 0 /\ delta < 0 THEN -12 + wrapped ELSE prev + delta

\* adjustTranspose(delta): a press of the + or the - button.
adjustTranspose(delta) ==
    /\ apc = "chart"
    /\ Len(pressed) < MaxPresses
    /\ appTransposeSteps' = NextTransposeSteps(appTransposeSteps, delta)
    /\ pressed' = Append(pressed, delta)
    /\ UNCHANGED <<apc, chartDocument, shownAtLoad, notA>>

ANext == \E delta \in {1, -1} : adjustTranspose(delta)

-----------------------------------------------------------------------------
(* Claim C27: net zero presses give the text back *)

RECURSIVE SumOf(_)
SumOf(deltas) == IF deltas = <<>> THEN 0 ELSE Head(deltas) + SumOf(Tail(deltas))

\* C27: whenever the presses of + and - since the load cancel out, the
\* exported ChordPro text is the text shown before any press.
C27_NetZeroGivesTheTextBack ==
    (apc = "chart" /\ SumOf(pressed) = 0) => chartProTextMemo = shownAtLoad

-----------------------------------------------------------------------------
(* PDF export and print of the App component: src/unnamed/part_003, lines
   1325-1416, 1944-2022.  Lengths are in tenths of the unit of the source
   (8.5 in is 85, 210 mm is 2100); Zoom is in tenths. *)

MaxOps == 3

MaxPages == 2

PRINT_ZOOM == 10

\* The rule keys that snapshotEngravingRules reads and restoreEngravingRules
\* writes back.
RuleKeys ==
    {"PageWidth", "PageHeight", "PageTopMargin", "PageBottomMargin",
     "PageLeftMargin", "PageRightMargin", "SystemLeftMargin", "SystemRightMargin"}

\* The engraving rules of a score on the screen: every rule key holds a
\* number, and the page format is the endless one.
ScreenRules ==
    [PageWidth |-> 1800, PageHeight |-> 0, PageTopMargin |-> 50,
     PageBottomMargin |-> 50, PageLeftMargin |-> 50, PageRightMargin |-> 50,
     SystemLeftMargin |-> 0, SystemRightMargin |-> 0,
     PageFormat |-> [width |-> 0, height |-> 0]]

snapshotEngravingRules(rules) ==
    [PageWidth |-> rules.PageWidth, PageHeight |-> rules.PageHeight,
     PageTopMargin |-> rules.PageTopMargin, PageBottomMargin |-> rules.PageBottomMargin,
     PageLeftMargin |-> rules.PageLeftMargin, PageRightMargin |-> rules.PageRightMargin,
     SystemLeftMargin |-> rules.SystemLeftMargin,
     SystemRightMargin |-> rules.SystemRightMargin,
     PageFormatWidth |-> rules.PageFormat.width,
     PageFormatHeight |-> rules.PageFormat.height]

\* osmd.setPageFormat("Letter_P" | "A4_P"), then the six page rules.
applyPrintProfile(rules, pageSize) ==
    IF pageSize = "letter"
    THEN [rules EXCEPT !.PageFormat = [width |-> 2159, height |-> 2794],
                       !.PageWidth = 85, !.PageHeight = 110,
                       !.PageTopMargin = 5, !.PageBottomMargin = 5,
                       !.PageLeftMargin = 5, !.PageRightMargin = 5]
    ELSE [rules EXCEPT !.PageFormat = [width |-> 2100, height |-> 2970],
                       !.PageWidth = 2100, !.PageHeight = 2970,
                       !.PageTopMargin = 120, !.PageBottomMargin = 120,
                       !.PageLeftMargin = 120, !.PageRightMargin = 120]

\* osmd.setCustomPageFormat(width, height), then every rule key of the
\* snapshot.
restoreEngravingRules(rules, snapshot) ==
    [key \in DOMAIN rules |->
        IF key = "PageFormat"
        THEN [width |-> snapshot.PageFormatWidth, height |-> snapshot.PageFormatHeight]
        ELSE IF key \in RuleKeys THEN snapshot[key]
        ELSE rules[key]]

NoOp == [kind |-> "", at |-> "idle", rulesSnapshot |-> snapshotEngravingRules(ScreenRules),
         zoomSnapshot |-> 0, pagesLeft |-> 0]

ZIdle ==
    /\ zpc = "idle"
    /\ pdfPageSize = "a4"
    /\ EngravingRules = ScreenRules
    /\ Zoom = PRINT_ZOOM
    /\ ops = <<>>
    /\ rulesAtStart = ScreenRules
    /\ zoomAtStart = PRINT_ZOOM

\* A score is rendered on the screen, at some zoom, and no export or print
\* has been started.
ZInit ==
    /\ zpc = "score"
    /\ pdfPageSize \in {"letter", "a4"}
    /\ EngravingRules = ScreenRules
    /\ Zoom \in {PRINT_ZOOM, 15}
    /\ ops = [k \in 1..MaxOps |-> NoOp]
    /\ rulesAtStart = EngravingRules
    /\ zoomAtStart = Zoom

\* The next call is the first one that has not started.
IsNextOp(k) ==
    /\ k \in DOMAIN ops
    /\ ops[k].at = "idle"
    /\ \A j \in 1..(k - 1) : ops[j].at # "idle"

\* exportPdf, up to its first "await svgToCanvas(...)": the snapshots, the
\* print profile, PRINT_ZOOM, and the pages to rasterize.
exportPdfStart(k, pages) ==
    /\ zpc = "score"
    /\ IsNextOp(k)
    /\ ops' = [ops EXCEPT ![k] = [kind |-> "exportPdf", at |-> "awaiting",
                                  rulesSnapshot |-> snapshotEngravingRules(EngravingRules),
                                  zoomSnapshot |-> Zoom, pagesLeft |-> pages]]
    /\ EngravingRules' = applyPrintProfile(EngravingRules, pdfPageSize)
    /\ Zoom' = PRINT_ZOOM
    /\ UNCHANGED <<zpc, pdfPageSize, rulesAtStart, zoomAtStart, notZ>>

\* exportPdf resumes after "await svgToCanvas(...)": with another page to
\* rasterize it awaits again; after the last page, or when the promise was
\* rejected, it runs to the end of the finally block.
exportPdfResume(k, rejected) ==
    /\ zpc = "score"
    /\ k \in DOMAIN ops
    /\ ops[k].kind = "exportPdf"
    /\ ops[k].at = "awaiting"
    /\ IF ~rejected /\ ops[k].pagesLeft > 1
       THEN /\ ops' = [ops EXCEPT ![k].pagesLeft = @ - 1]
            /\ UNCHANGED <<EngravingRules, Zoom>>
       ELSE /\ ops' = [ops EXCEPT ![k].at = "done", ![k].pagesLeft = 0]
            /\ EngravingRules' = restoreEngravingRules(EngravingRules, ops[k].rulesSnapshot)
            /\ Zoom' = ops[k].zoomSnapshot
    /\ UNCHANGED <<zpc, pdfPageSize, rulesAtStart, zoomAtStart, notZ>>

\* printScore: the snapshots, the print profile, PRINT_ZOOM, the afterprint
\* listener, window.print() and the one-second timer.
printScore(k) ==
    /\ zpc = "score"
    /\ IsNextOp(k)
    /\ ops' = [ops EXCEPT ![k] = [kind |-> "printScore", at |-> "printing",
                                  rulesSnapshot |-> snapshotEngravingRules(EngravingRules),
                                  zoomSnapshot |-> Zoom, pagesLeft |-> 0]]
    /\ EngravingRules' = applyPrintProfile(EngravingRules, pdfPageSize)
    /\ Zoom' = PRINT_ZOOM
    /\ UNCHANGED <<zpc, pdfPageSize, rulesAtStart, zoomAtStart, notZ>>

\* restoreAfterPrint, on the afterprint event or the timer, whichever is
\* first ("if (restored) return" makes the second one a no-op).
restoreAfterPrint(k) ==
    /\ zpc = "score"
    /\ k \in DOMAIN ops
    /\ ops[k].kind = "printScore"
    /\ ops[k].at = "printing"
    /\ ops' = [ops EXCEPT ![k].at = "done"]
    /\ EngravingRules' = restoreEngravingRules(EngravingRules, ops[k].rulesSnapshot)
    /\ Zoom' = ops[k].zoomSnapshot
    /\ UNCHANGED <<zpc, pdfPageSize, rulesAtStart, zoomAtStart, notZ>>

ZNext ==
    \/ \E k \in 1..MaxOps, pages \in 1..MaxPages : exportPdfStart(k, pages)
    \/ \E k \in 1..MaxOps, rejected \in BOOLEAN : exportPdfResume(k, rejected)
    \/ \E k \in 1..MaxOps : printScore(k)
    \/ \E k \in 1..MaxOps : restoreAfterPrint(k)

-----------------------------------------------------------------------------
(* Claim C28: export and print leave the engraving rules and the zoom alone *)

AllStartedOpsDone ==
    /\ zpc = "score"
    /\ \E k \in DOMAIN ops : ops[k].at = "done"
    /\ \A k \in DOMAIN ops : ops[k].at \in {"idle", "done"}

\* C28: when every exportPdf and printScore call that was started has
\* completed, the engraving rules and the zoom are those from before the
\* first call, whatever the interleaving.
C28_RulesAndZoomRestored ==
    AllStartedOpsDone => (EngravingRules = rulesAtStart /\ Zoom = zoomAtStart)

-----------------------------------------------------------------------------
(* Claim C29: no warning message twice *)

\* C29: the warnings returned by one conversion call hold each distinct
\* message at most once.
C29_EachWarningOnce ==
    xpc = "done" =>
        \A i, j \in 1..Len(warnings) : warnings[i] = warnings[j] => i = j

-----------------------------------------------------------------------------
(* Claim C30: chord tokens of parseChordsOverWords match the chord grammar *)

\* C30: every token of kind chord in the document returned by
\* parseChordsOverWords has a text that matches CHORD_TOKEN_RE.
C30_ChordTokensMatchGrammar ==
    (ParseDone /\ chartFormat = "chords-over-words") =>
        \A s \in 1..Len(chartDoc.sections) :
            \A l \in 1..Len(chartDoc.sections[s].lines) :
                \A t \in 1..Len(chartDoc.sections[s].lines[l].tokens) :
                    LET token == chartDoc.sections[s].lines[l].tokens[t] IN
                    token.kind = "chord" => CHORD_TOKEN_RE(token.text)

-----------------------------------------------------------------------------
(* Specifications *)

InitTranspose == TInit /\ XIdle /\ CIdle /\ SIdle /\ IIdle /\ HIdle /\ AIdle /\ ZIdle

SpecTranspose == InitTranspose /\ [][TNext]_vars

InitLyrics == LInit /\ TIdle /\ CIdle /\ SIdle /\ IIdle /\ HIdle /\ AIdle /\ ZIdle

SpecLyrics == InitLyrics /\ [][XNext]_vars
InitRepeat == RInit /\ TIdle /\ CIdle /\ SIdle /\ IIdle /\ HIdle /\ AIdle /\ ZIdle

SpecRepeat == InitRepeat /\ [][XNext]_vars
InitGrid == GInit /\ TIdle /\ CIdle /\ SIdle /\ IIdle /\ HIdle /\ AIdle /\ ZIdle

SpecGrid == InitGrid /\ [][XNext]_vars
InitConvert == CInit /\ TIdle /\ CIdle /\ SIdle /\ IIdle /\ HIdle /\ AIdle /\ ZIdle

SpecConvert == InitConvert /\ [][XNext]_vars
InitChart == PInit /\ TIdle /\ XIdle /\ SIdle /\ IIdle /\ HIdle /\ AIdle /\ ZIdle

SpecChart == InitChart /\ [][CNext]_vars
InitParts == MInit /\ TIdle /\ CIdle /\ SIdle /\ IIdle /\ HIdle /\ AIdle /\ ZIdle

SpecParts == InitParts /\ [][XNext]_vars

InitEndings == NInit /\ TIdle /\ CIdle /\ SIdle /\ IIdle /\ HIdle /\ AIdle /\ ZIdle

SpecEndings == InitEndings /\ [][XNext]_vars

InitKeys == KInit /\ TIdle /\ CIdle /\ SIdle /\ IIdle /\ HIdle /\ AIdle /\ ZIdle

SpecKeys == InitKeys /\ [][XNext]_vars

InitBars == BInit /\ TIdle /\ CIdle /\ SIdle /\ IIdle /\ HIdle /\ AIdle /\ ZIdle

SpecBars == InitBars /\ [][XNext]_vars

InitExport == EInit /\ TIdle /\ XIdle /\ SIdle /\ IIdle /\ HIdle /\ AIdle /\ ZIdle

SpecExport == InitExport /\ [][ENext]_vars

InitCalls == TIdle /\ XIdle /\ CIdle /\ SIdle /\ IIdle /\ HIdle /\ AIdle /\ ZIdle

SpecCalls == InitCalls /\ [][HNext]_vars

InitChordLines == IInit /\ TIdle /\ XIdle /\ CIdle /\ SIdle /\ HIdle /\ AIdle /\ ZIdle

SpecChordLines == InitChordLines /\ [][INext]_vars

InitSniff == FInit /\ TIdle /\ XIdle /\ CIdle /\ IIdle /\ HIdle /\ AIdle /\ ZIdle

SpecSniff == InitSniff /\ [][SNext]_vars

InitCursor == DInit /\ TIdle /\ CIdle /\ SIdle /\ IIdle /\ HIdle /\ AIdle /\ ZIdle

SpecCursor == InitCursor /\ [][XNext]_vars

InitOffsets == OInit /\ TIdle /\ CIdle /\ SIdle /\ IIdle /\ HIdle /\ AIdle /\ ZIdle

SpecOffsets == InitOffsets /\ [][XNext]_vars

InitCollisions == JInit /\ TIdle /\ CIdle /\ SIdle /\ IIdle /\ HIdle /\ AIdle /\ ZIdle

SpecCollisions == InitCollisions /\ [][XNext]_vars

InitOverWords == WInit /\ TIdle /\ XIdle /\ SIdle /\ IIdle /\ HIdle /\ AIdle /\ ZIdle

SpecOverWords == InitOverWords /\ [][WNext]_vars

InitSections == YInit /\ TIdle /\ XIdle /\ SIdle /\ IIdle /\ HIdle /\ AIdle /\ ZIdle

SpecSections == InitSections /\ [][YNext]_vars

InitHeaders == UInit /\ TIdle /\ XIdle /\ SIdle /\ IIdle /\ HIdle /\ AIdle /\ ZIdle

SpecHeaders == InitHeaders /\ [][YNext]_vars

InitPresses == AInit /\ TIdle /\ XIdle /\ CIdle /\ SIdle /\ IIdle /\ HIdle /\ ZIdle

SpecPresses == InitPresses /\ [][ANext]_vars

InitOsmd == ZInit /\ TIdle /\ XIdle /\ CIdle /\ SIdle /\ IIdle /\ HIdle /\ AIdle

SpecOsmd == InitOsmd /\ [][ZNext]_vars

====
